---------------------------- MODULE Spec2Model ----------------------------
(***************************************************************************)
(* A model of the transcript-to-script pipeline of the podcast script      *)
(* generator: TranscriptProcessor (python-scripts/transcript_processor.py) *)
(* and PodcastScriptGenerator (python-scripts/script_generator.py), with   *)
(* LLMIntegration.enhance_transcript (python-scripts/llm_integration.py),  *)
(* the workflow of CloudflareWorkersClient                                 *)
(* (python-scripts/cloudflare_client.py), ContentFetcher                   *)
(* (python-scripts/content_fetcher.py) and Config (config/config.py).      *)
(*                                                                         *)
(* Python values are tagged records, so that a missing key, None, a number *)
(* and a string can sit in the same field.  Durations are fixed-point:     *)
(* one unit is 1/1000 of a minute (1.5 minutes is 1500).  Texts are        *)
(* sequences of one-character strings.                                     *)
(***************************************************************************)
EXTENDS Integers, Sequences, FiniteSets, TLC

VARIABLES
    show_config,    \* PodcastScriptGenerator.show_config, as handed to __init__
    file_content,   \* the text handed to TranscriptProcessor
    processed,      \* the processed transcript handed to the generator
    llm,            \* the LLMIntegration object: its provider
    config,         \* the Config object: its cloudflare, llm and podcast parts
    config_file,    \* the mapping in the JSON file at Config.config_file
    backend,        \* what the remote services answer to the requests of a call
    call,           \* the operation that has returned ("none" before any)
    ret             \* what it returned, or the exception it raised

vars == <<show_config, file_content, processed, llm, config, config_file, backend, call, ret>>

-----------------------------------------------------------------------------
(* Bounds of the model.                                                    *)

MaxSegments == 3
MaxTokens == 4

-----------------------------------------------------------------------------
(* Python values.                                                          *)

Absent == [t |-> "absent"]                  \* the key is not in the dict
None == [t |-> "None"]
Num(n) == [t |-> "num", v |-> n]
Str(s) == [t |-> "str", v |-> s]
Text(chars) == [t |-> "text", v |-> chars]  \* a str kept character by character
List(q) == [t |-> "list", v |-> q]
Bool(b) == [t |-> "bool", v |-> b]
Dict(d) == [t |-> "dict", v |-> d]

IsNum(x) == x.t = "num"
IsDict(x) == x.t = "dict"
IsList(x) == x.t = "list"

\* bool(x): None, 0, '', [] and {} are falsy.  A dict of the model is empty
\* when every key of it is Absent.
Truthy(x) ==
    CASE x.t = "None" -> FALSE
      [] x.t = "absent" -> FALSE
      [] x.t = "num" -> x.v # 0
      [] x.t = "str" -> x.v # ""
      [] x.t = "text" -> x.v # <<>>
      [] x.t = "list" -> x.v # <<>>
      [] x.t = "dict" -> \E k \in DOMAIN x.v : x.v[k] # Absent
      [] x.t = "bool" -> x.v
      [] OTHER -> TRUE

\* The outcome of a call: a returned value or a raised exception.
Ok(v) == [ok |-> TRUE, value |-> v]
Raise(e) == [ok |-> FALSE, message |-> e]

\* d.get(k, default) on a dict of the model.
Get(d, k, default) == IF d[k] = Absent THEN default ELSE d[k]

Max(a, b) == IF a >= b THEN a ELSE b

RECURSIVE SumSeq(_)
SumSeq(q) == IF q = <<>> THEN 0 ELSE Head(q) + SumSeq(Tail(q))

-----------------------------------------------------------------------------
(* Python floats (binary64).  A float x is kept as the pair (n, r) with     *)
(*     x = n / 1000 + r / (1000 * 2^60),                                    *)
(* n the decimal value in 1/1000 and r what the binary representation adds  *)
(* to it.  The floats of binary exponent e lie 2^(e - 52) apart, which is   *)
(* Spacing(e) in the unit of r.  The model holds floats from 2^-8 up to     *)
(* 2^11, and 0.                                                             *)

Float(n, r) == [n |-> n, r |-> r]

RECURSIVE Pow2(_)
Pow2(k) == IF k = 0 THEN 1 ELSE 2 * Pow2(k - 1)

\* 2^k modulo m
RECURSIVE Pow2Mod(_, _)
Pow2Mod(k, m) == IF k = 0 THEN 1 % m ELSE (2 * Pow2Mod(k - 1, m)) % m

\* floor(log2(n / 1000)) for n > 0
RECURSIVE Log2(_)
Log2(n) ==
    IF n >= 2000 THEN 1 + Log2(n \div 2)
    ELSE IF n < 1000 THEN Log2(2 * n) - 1
    ELSE 0

\* The binary exponent of the value (n, r): that of n / 1000, and one less
\* when n / 1000 is a power of two and r is below zero.
PowerOfTwo(n) ==
    IF Log2(n) >= 0 THEN n = 1000 * Pow2(Log2(n)) ELSE n * Pow2(0 - Log2(n)) = 1000

Exponent(n, r) == IF r < 0 /\ PowerOfTwo(n) THEN Log2(n) - 1 ELSE Log2(n)

Spacing(e) == 1000 * Pow2(e + 8)

\* (n * 2^60) modulo k * Spacing(e), for k = 1 or 2: the place of n / 1000
\* between the floats of exponent e.
Offset(n, e, k) ==
    Pow2(e + 8) * (((n % (1000 * k)) * Pow2Mod(52 - e, 1000 * k)) % (1000 * k))

\* The float nearest to the value (n, r), the one with the even mantissa
\* when two are equally near (round-half-even, as every float operation).
NearestFloat(n, r) ==
    LET e == Exponent(n, r)
        above == (Offset(n, e, 1) + r) % Spacing(e)
        down == r - above
        up == down + Spacing(e)
        odd == ((Offset(n, e, 2) + down) % (2 * Spacing(e))) >= Spacing(e)
    IN  IF 2 * above < Spacing(e) THEN Float(n, down)
        ELSE IF 2 * above > Spacing(e) THEN Float(n, up)
        ELSE IF odd THEN Float(n, up) ELSE Float(n, down)

\* The same for a value of either sign: the floats lie symmetrically around 0.
RoundToFloat(n, r) ==
    IF n = 0 THEN Float(0, 0)
    ELSE IF n > 0 THEN NearestFloat(n, r)
    ELSE Float(n, 0 - NearestFloat(0 - n, 0 - r).r)

\* The float of a decimal value in 1/1000: a literal, a value read from
\* JSON, or what round(x, 2) gives.
FloatOf(n) == RoundToFloat(n, 0)

\* x + y
FloatAdd(x, y) == RoundToFloat(x.n + y.n, x.r + y.r)

\* x % 1 for x >= 0, which is exact.
FloatMod1(x) ==
    IF x.n % 1000 = 0 /\ x.r < 0 THEN Float(1000, x.r) ELSE Float(x.n % 1000, x.r)

\* x * k for an integer k
FloatTimes(x, k) == RoundToFloat(k * x.n, k * x.r)

\* int(x) for x >= 0
FloatInt(x) ==
    IF x.n % 1000 = 0 /\ x.r < 0 THEN x.n \div 1000 - 1 ELSE x.n \div 1000

\* round(x, 2) for x >= 0, in 1/1000: the nearest 1/100 to the value the float
\* holds, and the even one when the float holds a tie exactly.
FloatRound2(x) ==
    LET q == x.n \div 10
        d == x.n % 10
    IN  IF d < 5 THEN 10 * q
        ELSE IF d > 5 THEN 10 * (q + 1)
        ELSE IF x.r < 0 THEN 10 * q
        ELSE IF x.r > 0 THEN 10 * (q + 1)
        ELSE IF q % 2 = 0 THEN 10 * q ELSE 10 * (q + 1)

-----------------------------------------------------------------------------
(* Show configurations.                                                    *)

SpeakersDict(format, host, guest, co_host) ==
    Dict([format |-> format, host_name |-> host, guest_name |-> guest,
          co_host_name |-> co_host, participants |-> Absent])

\* {}: what .get('speakers', {}) falls back to.
EmptySpeakers == SpeakersDict(Absent, Absent, Absent, Absent)

ShowConfig(show_name, host, tagline, intro_music, outro_music, speakers) ==
    Dict([show_name |-> show_name, host_name |-> host, show_tagline |-> tagline,
          intro_music_duration |-> intro_music,
          outro_music_duration |-> outro_music, speakers |-> speakers])

_default_show_config ==
    ShowConfig(Str("AI Insights Podcast"), Str("Your Host"),
               Str("Exploring the future of artificial intelligence"),
               Num(10), Num(15),
               Dict([format |-> Str("single_host"), host_name |-> Str("Your Host"),
                     guest_name |-> None, co_host_name |-> None,
                     participants |-> List(<<>>)]))

\* __init__: self.show_config = show_config or self._default_show_config()
InitShowConfig(given) == IF Truthy(given) THEN given ELSE _default_show_config

\* self.show_config.get(key, default); the caller has checked it is a dict.
ConfigGet(cfg, key, default) == Get(cfg.v, key, default)

-----------------------------------------------------------------------------
(* Speaker-format resolution.                                              *)

RECURSIVE CountQa(_)
CountQa(segs) ==
    IF segs = <<>> THEN 0
    ELSE (IF Get(Head(segs).v, "segment_type", None) = Str("qa") THEN 1 ELSE 0)
         + CountQa(Tail(segs))

\* A resolver that overrides from two qa segments on.
QaOverride_AtLeastTwo(n, format_type) == n >= 2 /\ format_type = Str("single_host")

\* The override of line 49: more than 2 qa segments under single_host.
QaOverride(n, format_type) == n > 2 /\ format_type = Str("single_host")

\* transcript_data.get('segments', []), then iterating it: the list's items
\* when every step succeeds, the exception otherwise.
SegmentsOf(pt) ==
    IF ~IsDict(pt) THEN Raise("AttributeError: no attribute 'get'")
    ELSE LET segments == Get(pt.v, "segments", List(<<>>))
         IN  IF ~IsList(segments) THEN Raise("TypeError: object is not iterable")
             ELSE IF \E i \in 1..Len(segments.v) : ~IsDict(segments.v[i])
                  THEN Raise("AttributeError: no attribute 'get'")
                  ELSE Ok(segments.v)

_determine_speaker_format(cfg, pt) ==
    IF ~IsDict(cfg) THEN Raise("AttributeError: no attribute 'get'")
    ELSE LET speakers == ConfigGet(cfg, "speakers", EmptySpeakers)
         IN  IF ~IsDict(speakers) THEN Raise("AttributeError: no attribute 'get'")
             ELSE LET base == Get(speakers.v, "format", Str("single_host"))
                      segs == SegmentsOf(pt)
                  IN  IF ~segs.ok THEN segs
                      ELSE Ok([format |-> IF QaOverride(CountQa(segs.value), base)
                                          THEN Str("interview") ELSE base,
                               host_name |-> Get(speakers.v, "host_name", Str("HOST")),
                               guest_name |-> Get(speakers.v, "guest_name", Str("GUEST")),
                               co_host_name |-> Get(speakers.v, "co_host_name", Str("CO-HOST")),
                               participants |-> Get(speakers.v, "participants", List(<<>>))])

-----------------------------------------------------------------------------
(* Regular expressions over texts (module re), as far as the program uses  *)
(* them.  A matcher M(s, i) gives the index just past the match of its     *)
(* pattern that starts at position i of s, and 0 when the pattern does not *)
(* match there.                                                            *)

Whitespace == {" ", "\n", "\t"}

UpperLetters ==
    <<"A", "B", "C", "D", "E", "F", "G", "H", "I", "J", "K", "L", "M",
      "N", "O", "P", "Q", "R", "S", "T", "U", "V", "W", "X", "Y", "Z">>
LowerLetters ==
    <<"a", "b", "c", "d", "e", "f", "g", "h", "i", "j", "k", "l", "m",
      "n", "o", "p", "q", "r", "s", "t", "u", "v", "w", "x", "y", "z">>

Upper == {UpperLetters[i] : i \in DOMAIN UpperLetters}          \* [A-Z]
Lower == {LowerLetters[i] : i \in DOMAIN LowerLetters}          \* [a-z]
Digit == {"0", "1", "2", "3", "4", "5", "6", "7", "8", "9"}     \* \d
Letter == Upper \cup Lower                                      \* [a-zA-Z]
WordChar == Letter \cup Digit \cup {"_"}                        \* \w

\* str.lower()
LowerChar(c) ==
    IF c \in Upper
    THEN LowerLetters[CHOOSE i \in DOMAIN UpperLetters : UpperLetters[i] = c]
    ELSE c

Lowered(s) == [i \in 1..Len(s) |-> LowerChar(s[i])]

\* \b at position i: exactly one of the characters before and at i is a word
\* character (the ends of the text count as non-word).
IsWordAt(s, i) == i \in 1..Len(s) /\ s[i] \in WordChar
WordBoundary(s, i) == IsWordAt(s, i - 1) # IsWordAt(s, i)

\* X* for a character class X, greedy: the first index from i on that is past
\* the end of s or holds a character outside X.
SkipWhile(s, i, X) ==
    CHOOSE j \in i..(Len(s) + 1) :
        /\ \A k \in i..(j - 1) : s[k] \in X
        /\ j = Len(s) + 1 \/ s[j] \notin X

\* A literal under re.IGNORECASE; lit is given in lower case.
MatchIgnoreCase(s, i, lit) ==
    IF i + Len(lit) - 1 <= Len(s) /\ Lowered(SubSeq(s, i, i + Len(lit) - 1)) = lit
    THEN i + Len(lit)
    ELSE 0

-----------------------------------------------------------------------------
(* Script text.  A script is a sequence of lines; a line is a bracketed    *)
(* production cue or a line spoken under a speaker label, with the values  *)
(* its template interpolates.                                              *)

Cue(text, slots) == [kind |-> "cue", speaker |-> Absent, text |-> text, slots |-> slots]
Spoken(speaker, text, slots) ==
    [kind |-> "spoken", speaker |-> speaker, text |-> text, slots |-> slots]

Min(a, b) == IF a <= b THEN a ELSE b
Take(q, n) == SubSeq(q, 1, Min(n, Len(q)))

RECURSIVE JoinStr(_, _)
JoinStr(items, sep) ==
    IF items = <<>> THEN ""
    ELSE IF Len(items) = 1 THEN items[1]
    ELSE items[1] \o sep \o JoinStr(Tail(items), sep)

\* The strings of a list of Str values.
RECURSIVE StrsOf(_)
StrsOf(q) == IF q = <<>> THEN <<>> ELSE <<Head(q).v>> \o StrsOf(Tail(q))

\* segment['topic_keywords'][:n] when segment.get('topic_keywords') is truthy.
KeywordsHead(seg, n) ==
    LET kw == Get(seg.v, "topic_keywords", None)
    IN  IF Truthy(kw) THEN StrsOf(Take(kw.v, n)) ELSE <<>>

RECURSIVE TopicsOf(_, _)
TopicsOf(segs, n) ==
    IF segs = <<>> THEN <<>>
    ELSE KeywordsHead(Head(segs), n) \o TopicsOf(Tail(segs), n)

PreviewItem(seg) ==
    LET ty == Get(seg.v, "segment_type", None)
    IN  IF ty = Str("data") THEN <<"some surprising statistics">>
        ELSE IF ty = Str("narrative") THEN <<"a compelling case study">>
        ELSE IF ty = Str("qa") THEN <<"answers to important questions">>
        ELSE IF KeywordsHead(seg, 1) # <<>>
             THEN <<"insights about " \o KeywordsHead(seg, 1)[1]>>
             ELSE <<>>

RECURSIVE PreviewItems(_)
PreviewItems(segs) ==
    IF segs = <<>> THEN <<>> ELSE PreviewItem(Head(segs)) \o PreviewItems(Tail(segs))

_generate_episode_preview(segs) ==
    LET items == PreviewItems(Take(segs, 4))
        n == Len(items)
    IN  IF n >= 3 THEN JoinStr(SubSeq(items, 1, n - 1), ", ") \o ", and " \o items[n]
        ELSE IF n = 2 THEN items[1] \o " and " \o items[2]
        ELSE IF n = 1 THEN items[1] ELSE "fascinating insights"

IntroScript(cfg, segs, sc, main_topics) ==
    LET host == sc.host_name
        music == Cue("[INTRO MUSIC - {intro_music_duration} seconds]",
                     <<ConfigGet(cfg, "intro_music_duration", Num(10))>>)
        show == ConfigGet(cfg, "show_name", Str("our podcast"))
        tagline == ConfigGet(cfg, "show_tagline", Str("we explore interesting topics"))
        topics == IF main_topics # <<>> THEN Str(JoinStr(Take(main_topics, 3), ", "))
                  ELSE Str("cutting-edge developments")
        preview == Str(_generate_episode_preview(segs))
        fades == Cue("[MUSIC FADES]", <<>>)
        sound == Cue("[TRANSITION SOUND]", <<>>)
    IN  IF sc.format = Str("interview") THEN
            << music,
               Spoken(host, "Welcome back to {show_name}, I'm {host_name}, and this is the show where {show_tagline}.",
                      <<show, host, tagline>>),
               fades,
               Spoken(host, "Today I'm joined by our special guest to dive deep into some fascinating insights about {topics}.",
                      <<topics>>),
               Spoken(host, "We'll explore {preview}, and by the end of our conversation, you'll have a much clearer understanding of how these developments might impact your world.",
                      <<preview>>),
               Spoken(sc.guest_name, "Thanks for having me on the show. I'm excited to share some insights about this topic.", <<>>),
               Spoken(host, "Absolutely! Let's jump right in.", <<>>),
               sound >>
        ELSE IF sc.format = Str("multi_host") THEN
            << music,
               Spoken(host, "Welcome back to {show_name}, I'm {host_name}...", <<show, host>>),
               Spoken(sc.co_host_name, "...and I'm {co_host}, and this is the show where {show_tagline}.",
                      <<sc.co_host_name, tagline>>),
               fades,
               Spoken(host, "In today's episode, we're diving deep into some fascinating insights about {topics}.",
                      <<topics>>),
               Spoken(sc.co_host_name, "That's right! We'll explore {preview}, and by the end of this episode, you'll have a much clearer understanding of how these developments might impact your world.",
                      <<preview>>),
               Spoken(host, "So let's jump right in.", <<>>),
               sound >>
        ELSE
            << music,
               Spoken(host, "Welcome back to {show_name}, I'm {host_name}, and this is the show where {show_tagline}.",
                      <<show, host, tagline>>),
               fades,
               Spoken(host, "In today's episode, we're diving deep into some fascinating insights about {topics}.",
                      <<topics>>),
               Spoken(host, "We'll explore {preview}, and by the end of this episode, you'll have a much clearer understanding of how these developments might impact your world.",
                      <<preview>>),
               sound,
               Spoken(host, "So let's jump right in.", <<>>) >>

IntroDuration == 1500       \* 'estimated_duration': 1.5 minutes

_generate_intro(cfg, segs, sc) ==
    LET main_topics == TopicsOf(Take(segs, 3), 2)
    IN  [script |-> IntroScript(cfg, segs, sc, main_topics),
         estimated_duration |-> Num(IntroDuration),
         topics_preview |-> Take(main_topics, 3),
         format |-> sc.format]

-----------------------------------------------------------------------------
(* Main content.                                                           *)

\* The dialogue template of a segment: (speaker format) x (segment type).
PolishTemplate(seg, sc) ==
    LET raw == Get(seg.v, "text", Text(<<>>))
        ty == Get(seg.v, "segment_type", Str("content"))
        host == sc.host_name
        guest == sc.guest_name
        co_host == sc.co_host_name
        pause == Cue("[PAUSE FOR EMPHASIS]", <<>>)
    IN  IF sc.format = Str("interview") THEN
            IF ty = Str("data") THEN
                << Spoken(host, "Now, here's something that really caught my attention. {raw_text}", <<raw>>),
                   Spoken(host, "Let me break that down for you - because these numbers tell a really important story.", <<>>),
                   Spoken(guest, "Exactly, and what's particularly interesting about these statistics is how they reveal the underlying trends we've been discussing.", <<>>),
                   pause >>
            ELSE IF ty = Str("narrative") THEN
                << Spoken(host, "Let me share a story that perfectly illustrates this point. {raw_text}", <<raw>>),
                   Spoken(guest, "That's a perfect example. And this isn't just one isolated case - we're seeing this pattern emerge across the industry.", <<>>),
                   Spoken(host, "Absolutely. What does this tell us about where we're heading?", <<>>) >>
            ELSE IF ty = Str("qa") THEN
                << Spoken(host, "Now, you might be wondering... {raw_text}", <<raw>>),
                   Spoken(guest, "It's a great question, and the answer might surprise you.", <<>>),
                   Spoken(host, "I have to say, when I first learned about this, it completely changed my perspective.", <<>>) >>
            ELSE
                << Spoken(host, "{raw_text}", <<raw>>),
                   Spoken(guest, "That's really insightful. Can you elaborate on that?", <<>>),
                   Spoken(host, "[NATURAL PAUSE] Absolutely, let me dive deeper into that.", <<>>) >>
        ELSE IF sc.format = Str("multi_host") THEN
            IF ty = Str("data") THEN
                << Spoken(host, "Now, here's something that really caught my attention. {raw_text}", <<raw>>),
                   Spoken(co_host, "Wow, those numbers are really striking. ", <<>>),
                   Spoken(host, "Right? Let me break that down for our listeners - because these numbers tell a really important story.", <<>>),
                   pause >>
            ELSE IF ty = Str("narrative") THEN
                << Spoken(host, "Let me share a story that perfectly illustrates this point. {raw_text}", <<raw>>),
                   Spoken(co_host, "That's such a compelling example. And this isn't just one isolated case, is it?", <<>>),
                   Spoken(host, "Not at all - we're seeing this pattern emerge across the industry.", <<>>) >>
            ELSE
                << Spoken(host, "{raw_text}", <<raw>>),
                   Spoken(co_host, "That's really interesting. What do you think about that?", <<>>),
                   Spoken(host, "[NATURAL PAUSE] It really makes you think about the broader implications.", <<>>) >>
        ELSE
            IF ty = Str("data") THEN
                << Spoken(host, "Now, here's something that really caught my attention. {raw_text}", <<raw>>),
                   pause,
                   Spoken(host, "Let me break that down for you - because these numbers tell a really important story.", <<>>) >>
            ELSE IF ty = Str("narrative") THEN
                << Spoken(host, "Let me share a story that perfectly illustrates this point. {raw_text}", <<raw>>),
                   Spoken(host, "And this isn't just one isolated example - we're seeing this pattern emerge across the industry.", <<>>) >>
            ELSE IF ty = Str("qa") THEN
                << Spoken(host, "Now, you might be wondering... {raw_text}", <<raw>>),
                   Spoken(host, "It's a great question, and the answer might surprise you.", <<>>) >>
            ELSE
                << Spoken(host, "{raw_text}", <<raw>>),
                   Cue("[NATURAL PAUSE]", <<>>) >>

\* The characters of a speaker label as the f-string renders it: of the names
\* the show configurations give, of the default role names, and of str(None).
NameChars(speaker) ==
    CASE speaker = None -> <<"N", "o", "n", "e">>
      [] speaker = Str("Your Host") -> <<"Y", "o", "u", "r", " ", "H", "o", "s", "t">>
      [] speaker = Str("ALEX") -> <<"A", "L", "E", "X">>
      [] speaker = Str("DR. SMITH") -> <<"D", "R", ".", " ", "S", "M", "I", "T", "H">>
      [] speaker = Str("JORDAN") -> <<"J", "O", "R", "D", "A", "N">>
      [] speaker = Str("HOST") -> <<"H", "O", "S", "T">>
      [] speaker = Str("GUEST") -> <<"G", "U", "E", "S", "T">>
      [] speaker = Str("CO-HOST") -> <<"C", "O", "-", "H", "O", "S", "T">>

EmphasisWords ==
    << <<"r", "e", "a", "l", "l", "y">>, <<"v", "e", "r", "y">>,
       <<"e", "x", "t", "r", "e", "m", "e", "l", "y">> >>

\* \b(really|very|extremely)\b  under re.IGNORECASE
EmphasisWord(s, i) ==
    LET ends == [k \in DOMAIN EmphasisWords |-> MatchIgnoreCase(s, i, EmphasisWords[k])]
        ok == {k \in DOMAIN EmphasisWords : ends[k] > 0 /\ WordBoundary(s, ends[k])}
    IN  IF WordBoundary(s, i) /\ ok # {}
        THEN ends[CHOOSE k \in ok : \A l \in ok : k <= l] ELSE 0

\* ([.!?])\s+([A-Z]) in a text the emphasis markers have been put into: a
\* capital that starts an emphasis word stands behind '[EMPHASIS] ' by then.
SentenceBreak(s, i) ==
    LET j == SkipWhile(s, i + 1, Whitespace)
    IN  IF /\ s[i] \in {".", "!", "?"}
           /\ j > i + 1 /\ j <= Len(s) /\ s[j] \in Upper
           /\ EmphasisWord(s, j) = 0
        THEN j + 1 ELSE 0

\* The template texts that hold an emphasis word (each holds one), those that
\* hold the end of a sentence followed by a capital (each holds one), and
\* those in which the segment text follows the end of a sentence.
EmphasisTexts ==
    { "Now, here's something that really caught my attention. {raw_text}",
      "Let me break that down for you - because these numbers tell a really important story.",
      "Right? Let me break that down for our listeners - because these numbers tell a really important story.",
      "That's really insightful. Can you elaborate on that?",
      "That's really interesting. What do you think about that?",
      "Wow, those numbers are really striking. ",
      "[NATURAL PAUSE] It really makes you think about the broader implications." }

BreakTexts ==
    { "Absolutely. What does this tell us about where we're heading?",
      "Right? Let me break that down for our listeners - because these numbers tell a really important story.",
      "That's a perfect example. And this isn't just one isolated case - we're seeing this pattern emerge across the industry.",
      "That's really insightful. Can you elaborate on that?",
      "That's really interesting. What do you think about that?",
      "That's such a compelling example. And this isn't just one isolated case, is it?" }

RawAfterSentence ==
    { "Now, here's something that really caught my attention. {raw_text}",
      "Let me share a story that perfectly illustrates this point. {raw_text}",
      "Now, you might be wondering... {raw_text}" }

\* The segment text a line interpolates: empty when it interpolates none.
RawOf(line) == IF line.slots = <<>> THEN <<>> ELSE line.slots[1].v

\* re.sub(r'\b(really|very|extremely)\b', r'[EMPHASIS] \1', text): the number
\* of markers put into a line.  The substitution runs over the whole block.
EmphasisIn(line) ==
    (IF line.text \in EmphasisTexts THEN 1 ELSE 0)
    + Cardinality({i \in 1..Len(RawOf(line)) : EmphasisWord(RawOf(line), i) > 0})
    + (IF line.kind = "spoken"
       THEN Cardinality({i \in 1..Len(NameChars(line.speaker)) :
                            EmphasisWord(NameChars(line.speaker), i) > 0})
       ELSE 0)

\* re.match(r'([A-Z-]+):\s*', line.strip()): the line starts with capitals and
\* hyphens up to a colon.
HasSpeakerLabel(line) ==
    /\ line.kind = "spoken"
    /\ NameChars(line.speaker) # <<>>
    /\ \A i \in 1..Len(NameChars(line.speaker)) :
           NameChars(line.speaker)[i] \in Upper \cup {"-"}

\* line.strip().startswith('[') and line.strip().endswith(']')
IsProductionNote(line) == line.kind = "cue"

\* re.sub(r'([.!?])\s+([A-Z])', r'\1\n\n[NATURAL PAUSE]\n\n\2', line): the
\* number of markers put into a line that is processed for natural speech.
BreaksIn(line) ==
    (IF line.text \in BreakTexts THEN 1 ELSE 0)
    + (IF /\ line.text \in RawAfterSentence
          /\ RawOf(line) # <<>>
          /\ RawOf(line)[1] \in Upper
          /\ EmphasisWord(RawOf(line), 1) = 0
       THEN 1 ELSE 0)
    + Cardinality({i \in 1..Len(RawOf(line)) : SentenceBreak(RawOf(line), i) > 0})
    + (IF line.kind = "spoken"
       THEN Cardinality({i \in 1..Len(NameChars(line.speaker)) :
                            SentenceBreak(NameChars(line.speaker), i) > 0})
       ELSE 0)

\* The pause markers put into a line: none when the line is preserved.
PausesIn(line) ==
    IF HasSpeakerLabel(line) THEN 0
    ELSE IF IsProductionNote(line) THEN 0
    ELSE BreaksIn(line)

\* _add_natural_speech_patterns(text): emphasis and pause markers are put
\* into the rendered text.  A dialogue is kept as lines with their slots, not
\* rendered, so the value is the dialogue together with the number of
\* emphasis and of pause markers put into each of its lines.  A segment text
\* is taken to hold no line break, as the texts of the transcript processor.
_add_natural_speech_patterns(polished) ==
    [lines |-> polished,
     natural_speech_patterns |-> TRUE,
     markers |-> [i \in 1..Len(polished) |->
                     [emphasis |-> EmphasisIn(polished[i]),
                      pauses |-> PausesIn(polished[i])]]]

_polish_segment_content(seg, sc) ==
    _add_natural_speech_patterns(PolishTemplate(seg, sc))

LongSegment == 3000         \* estimated_duration > 3 minutes
DenseKeywords == 5          \* more than 5 keywords

\* segment.get('estimated_duration', 0) > 3, len(segment.get('topic_keywords', [])) > 5:
\* comparing None with a number and len(None) raise TypeError.
_generate_production_notes(seg) ==
    LET duration == Get(seg.v, "estimated_duration", Num(0))
        keywords == Get(seg.v, "topic_keywords", List(<<>>))
    IN  IF ~IsNum(duration) THEN Raise("TypeError: '>' not supported")
        ELSE IF ~IsList(keywords) THEN Raise("TypeError: object has no len()")
        ELSE Ok((IF Get(seg.v, "segment_type", None) = Str("data")
                 THEN <<"Consider adding subtle background music for statistics",
                        "Emphasize key numbers with vocal inflection">>
                 ELSE <<>>)
                \o (IF duration.v > LongSegment
                    THEN <<"Long segment - consider adding a mid-segment music break">>
                    ELSE <<>>)
                \o (IF Len(keywords.v) > DenseKeywords
                    THEN <<"Dense content - speak slower and add extra pauses">>
                    ELSE <<>>))

DefaultDuration == 2000     \* segment.get('estimated_duration', 2)

\* A block numbered by its position, whatever id the segment carries.
SegmentId_Positional(seg, i) == Num(i + 1)

\* 'segment_id': segment.get('id', i + 1), with i counted from 0.
SegmentId(seg, i) == Get(seg.v, "id", Num(i + 1))

\* One content block; i is the segment's index counted from 0.
ContentBlock(seg, i, sc) ==
    [segment_id |-> SegmentId(seg, i),
     type |-> Get(seg.v, "segment_type", Str("content")),
     script |-> _polish_segment_content(seg, sc),
     estimated_duration |-> Get(seg.v, "estimated_duration", Num(DefaultDuration)),
     production_notes |-> _generate_production_notes(seg).value,
     keywords |-> Get(seg.v, "topic_keywords", List(<<>>))]

_generate_main_content(segs, sc) ==
    IF \E i \in 1..Len(segs) : ~_generate_production_notes(segs[i]).ok
    THEN LET k == CHOOSE i \in 1..Len(segs) :
                     /\ ~_generate_production_notes(segs[i]).ok
                     /\ \A j \in 1..(i - 1) : _generate_production_notes(segs[j]).ok
         IN  _generate_production_notes(segs[k])
    ELSE Ok([i \in 1..Len(segs) |-> ContentBlock(segs[i], i - 1, sc)])

-----------------------------------------------------------------------------
(* Transitions.                                                            *)

_create_transition_script(current, next_seg) ==
    LET current_type == Get(current.v, "segment_type", Str("content"))
        next_type == Get(next_seg.v, "segment_type", Str("content"))
    IN  IF current_type = Str("data") /\ next_type = Str("narrative")
        THEN Spoken(Str("HOST"), "Now, let me show you what this looks like in practice.", <<>>)
        ELSE IF current_type = Str("narrative") /\ next_type = Str("data")
        THEN Spoken(Str("HOST"), "The numbers behind this story are equally compelling.", <<>>)
        ELSE IF current_type = Str("introduction") /\ next_type = Str("content")
        THEN Cue("[TRANSITION MUSIC - 3 seconds]", <<>>)
        ELSE Spoken(Str("HOST"), "But there's more to this story.", <<>>)

\* A cue chosen from the next segment first.
_suggest_audio_cue_NextFirst(current, next_seg) ==
    IF Get(next_seg.v, "segment_type", None) = Str("narrative") THEN "gentle_whoosh"
    ELSE IF Get(current.v, "segment_type", None) = Str("data") THEN "soft_chime"
    ELSE "subtle_transition"

_suggest_audio_cue(current, next_seg) ==
    IF Get(current.v, "segment_type", None) = Str("data") THEN "soft_chime"
    ELSE IF Get(next_seg.v, "segment_type", None) = Str("narrative") THEN "gentle_whoosh"
    ELSE "subtle_transition"

\* A loop that stops one pair early.
TransitionCount_Short(segs) == Max(Len(segs) - 2, 0)

\* range(len(segments) - 1): the number of adjacent pairs.
TransitionCount(segs) == Max(Len(segs) - 1, 0)

Transition(current, next_seg) ==
    [between_segments |-> <<Get(current.v, "id", None), Get(next_seg.v, "id", None)>>,
     script |-> _create_transition_script(current, next_seg),
     audio_cue |-> _suggest_audio_cue(current, next_seg)]

_generate_transitions(segs) ==
    [i \in 1..TransitionCount(segs) |-> Transition(segs[i], segs[i + 1])]

-----------------------------------------------------------------------------
(* Outro.                                                                  *)

\* list(set(items))[:n].  The iteration order of a set of strings is not fixed
\* by the program, so the value is kept as what is known of it: the set and
\* the limit.
SetPrefix(items, n) == [set |-> {items[i] : i \in 1..Len(items)}, limit |-> n]

HasType(segs, ty) ==
    \E i \in 1..Len(segs) : Get(segs[i].v, "segment_type", None) = Str(ty)

\* A takeaway with a sentence of its own for narrative segments without data.
_generate_key_takeaway_NarrativeBranch(segs) ==
    IF segs = <<>> THEN "The future is full of exciting possibilities."
    ELSE IF HasType(segs, "data") /\ HasType(segs, "narrative")
    THEN "The data tells a clear story, and the real-world examples show us exactly how this impacts our daily lives."
    ELSE IF HasType(segs, "data")
    THEN "The numbers don't lie - we're witnessing a significant shift that deserves our attention."
    ELSE IF HasType(segs, "narrative")
    THEN "The stories show us exactly how this impacts our daily lives."
    ELSE "These insights give us a glimpse into what the future might hold."

_generate_key_takeaway(segs) ==
    IF segs = <<>> THEN "The future is full of exciting possibilities."
    ELSE IF HasType(segs, "data") /\ HasType(segs, "narrative")
    THEN "The data tells a clear story, and the real-world examples show us exactly how this impacts our daily lives."
    ELSE IF HasType(segs, "data")
    THEN "The numbers don't lie - we're witnessing a significant shift that deserves our attention."
    ELSE "These insights give us a glimpse into what the future might hold."

OutroScript(cfg, segs, sc) ==
    LET host == sc.host_name
        guest == sc.guest_name
        co_host == sc.co_host_name
        key_topics == TopicsOf(segs, 1)
        topics == IF key_topics # <<>> THEN SetPrefix(key_topics, 3)
                  ELSE Str("these fascinating developments")
        takeaway == Str(_generate_key_takeaway(segs))
        show == ConfigGet(cfg, "show_name", Str("our podcast"))
        transition == Cue("[TRANSITION MUSIC - 5 seconds]", <<>>)
        covered == Spoken(host, "So there you have it - we've covered a lot of ground today, from {topics} and everything in between.", <<topics>>)
        pause == Cue("[PAUSE]", <<>>)
        music == Cue("[OUTRO MUSIC - {outro_music_duration} seconds]",
                     <<ConfigGet(cfg, "outro_music_duration", Num(30))>>)
    IN  IF sc.format = Str("interview") THEN
            << transition, covered,
               Spoken(guest, "It's been a pleasure discussing these topics with you. There's so much happening in this space.", <<>>),
               Spoken(host, "Absolutely! The key takeaway? {takeaway}", <<takeaway>>),
               pause,
               Spoken(host, "Before we wrap up, where can our listeners learn more about your work?", <<>>),
               Spoken(guest, "You can find me [GUEST CONTACT INFO TO BE FILLED].", <<>>),
               Spoken(host, "Perfect! And if you found today's conversation valuable, please subscribe to {show_name} wherever you get your podcasts, and leave us a review.", <<show>>),
               Spoken(host, "Next week, we'll be diving into [NEXT EPISODE TEASER], so make sure you're subscribed.", <<>>),
               Spoken(host, "Thanks again for joining us today!", <<>>),
               Spoken(guest, "Thanks for having me!", <<>>),
               Spoken(host, "I'm {host_name}, thanks for listening to {show_name}.", <<host, show>>),
               music >>
        ELSE IF sc.format = Str("multi_host") THEN
            << transition, covered,
               Spoken(co_host, "The key takeaway? {takeaway}", <<takeaway>>),
               pause,
               Spoken(host, "If you found today's episode valuable, please subscribe to {show_name} wherever you get your podcasts, and leave us a review.", <<show>>),
               Spoken(co_host, "And next week, we'll be diving into [NEXT EPISODE TEASER], so make sure you're subscribed.", <<>>),
               Spoken(host, "Until then, keep exploring, keep questioning...", <<>>),
               Spoken(co_host, "...and keep pushing the boundaries of what's possible.", <<>>),
               Spoken(host, "I'm {host_name}...", <<host>>),
               Spoken(co_host, "...and I'm {co_host}, thanks for listening to {show_name}.", <<co_host, show>>),
               music >>
        ELSE
            << transition, covered,
               Spoken(host, "The key takeaway? {takeaway}", <<takeaway>>),
               pause,
               Spoken(host, "If you found today's episode valuable, please subscribe to {show_name} wherever you get your podcasts, and leave us a review - it really helps other listeners discover the show.", <<show>>),
               Spoken(host, "Next week, we'll be diving into [NEXT EPISODE TEASER], so make sure you're subscribed so you don't miss it.", <<>>),
               Spoken(host, "Until then, keep exploring, keep questioning, and keep pushing the boundaries of what's possible.", <<>>),
               Spoken(host, "I'm {host_name}, thanks for listening to {show_name}.", <<host, show>>),
               music >>

OutroDuration == 2000       \* 'estimated_duration': 2.0 minutes

_generate_outro(cfg, segs, sc) ==
    [script |-> OutroScript(cfg, segs, sc),
     estimated_duration |-> Num(OutroDuration),
     call_to_action |-> TRUE,
     format |-> sc.format]

-----------------------------------------------------------------------------
(* Show notes and metadata.                                                *)

Pad2(n) == IF n < 10 THEN "0" \o ToString(n) ELSE ToString(n)

\* f"{int(t):02d}:{int((t % 1) * 60):02d}" of a float t of minutes.
ClockString(t) ==
    Pad2(FloatInt(t)) \o ":" \o Pad2(FloatInt(FloatTimes(FloatMod1(t), 60)))

RECURSIVE LStrip(_)
LStrip(s) == IF s # <<>> /\ Head(s) \in Whitespace THEN LStrip(Tail(s)) ELSE s

RECURSIVE RStrip(_)
RStrip(s) ==
    IF s # <<>> /\ s[Len(s)] \in Whitespace THEN RStrip(SubSeq(s, 1, Len(s) - 1)) ELSE s

\* str.strip()
Strip(s) == RStrip(LStrip(s))

DescriptionLimit == 100
KeyPointLimit == 150
SentenceMin == 20

Ellipsis == <<".", ".", ".">>

_create_timestamp_description(seg) ==
    LET text == Get(seg.v, "text", Text(<<>>)).v
    IN  IF Len(text) > DescriptionLimit THEN SubSeq(text, 1, DescriptionLimit) \o Ellipsis
        ELSE text

\* re.split(r'[.!?]', text)[0]
FirstSentence(text) ==
    LET ends == {i \in 1..Len(text) : text[i] \in {".", "!", "?"}}
    IN  IF ends = {} THEN text
        ELSE SubSeq(text, 1, (CHOOSE i \in ends : \A j \in ends : i <= j) - 1)

_extract_key_point(seg) ==
    LET text == Get(seg.v, "text", Text(<<>>)).v
    IN  IF Len(FirstSentence(text)) > SentenceMin THEN Strip(FirstSentence(text)) \o <<".">>
        ELSE IF Len(text) > KeyPointLimit THEN SubSeq(text, 1, KeyPointLimit) \o Ellipsis
        ELSE text

\* The lists list(set(items))[:n] can be: the first n of the set in any order.
Orders(prefix) ==
    LET n == Min(prefix.limit, Cardinality(prefix.set))
    IN  {u \in [1..n -> prefix.set] : \A i, j \in 1..n : u[i] = u[j] => i = j}

\* f"{', '.join(unique_topics[:-1])} and {unique_topics[-1]}" (line 631)
SummaryTopics(unique_topics) ==
    JoinStr(SubSeq(unique_topics, 1, Len(unique_topics) - 1), ", ")
        \o " and " \o unique_topics[Len(unique_topics)]

_generate_episode_summary(segs) ==
    IF segs = <<>>
    THEN [text |-> "An insightful discussion about current developments and their implications.",
          slots |-> <<>>]
    ELSE LET topics == TopicsOf(Take(segs, 5), 1)
         IN  IF topics # <<>>
             THEN [text |-> "In this episode, we explore {', '.join(unique_topics[:-1])} and {unique_topics[-1]}, examining their impact and implications for the future.",
                   slots |-> <<SetPrefix(topics, 4)>>]
             ELSE [text |-> "A comprehensive discussion covering important developments and insights.",
                   slots |-> <<>>]

ClockStart == 1500          \* current_time = 1.5, after the intro

\* The running clock before segment k: 1.5 plus the durations before it.
RECURSIVE ClockAt(_, _)
ClockAt(segs, k) ==
    IF k = 1 THEN FloatOf(ClockStart)
    ELSE FloatAdd(ClockAt(segs, k - 1),
                  FloatOf(Get(segs[k - 1].v, "estimated_duration", Num(DefaultDuration)).v))

TimestampEntry(segs, k) ==
    [time |-> ClockString(ClockAt(segs, k)),
     topic |-> IF KeywordsHead(segs[k], 1) # <<>> THEN KeywordsHead(segs[k], 1)[1]
               ELSE "Discussion",
     description |-> _create_timestamp_description(segs[k])]

_generate_show_notes(segs) ==
    [episode_summary |-> _generate_episode_summary(segs),
     key_points |-> LET idx == SelectSeq([i \in 1..Len(segs) |-> i],
                                LAMBDA i : Get(segs[i].v, "segment_type", None)
                                               \in {Str("data"), Str("narrative")})
                    IN  [j \in 1..Len(idx) |-> _extract_key_point(segs[idx[j]])],
     timestamps |-> [k \in 1..Len(segs) |-> TimestampEntry(segs, k)],
     guest_info |-> None]

\* sum(segment.get('estimated_duration', 2) for segment in segments): the
\* durations added one after the other, from the left.
RECURSIVE DurationSum(_)
DurationSum(segs) ==
    IF segs = <<>> THEN FloatOf(0)
    ELSE FloatAdd(DurationSum(SubSeq(segs, 1, Len(segs) - 1)),
                  FloatOf(Get(segs[Len(segs)].v, "estimated_duration", Num(DefaultDuration)).v))

IntroOutroAllowance == 3500     \* + 3.5 minutes for intro and outro

\* max(keyword_counts, key=keyword_counts.get): the most frequent keyword, the
\* first such in order of first occurrence.
TopKeyword(all) ==
    LET count(w) == Cardinality({i \in 1..Len(all) : all[i] = w})
        best == CHOOSE i \in 1..Len(all) :
                    /\ \A j \in 1..Len(all) : count(all[j]) <= count(all[i])
                    /\ \A j \in 1..(i - 1) : count(all[j]) < count(all[i])
    IN  all[best]

RECURSIVE AllKeywords(_)
AllKeywords(segs) ==
    IF segs = <<>> THEN <<>>
    ELSE LET kw == Get(Head(segs).v, "topic_keywords", None)
         IN  (IF Truthy(kw) THEN StrsOf(kw.v) ELSE <<>>) \o AllKeywords(Tail(segs))

_generate_episode_title(segs) ==
    IF segs = <<>> THEN [text |-> "Exploring New Frontiers", slots |-> <<>>]
    ELSE LET all == AllKeywords(segs)
         IN  IF all # <<>>
             THEN [text |-> "The Future of {top_keyword.title()}", slots |-> <<TopKeyword(all)>>]
             ELSE [text |-> "Innovation and Impact", slots |-> <<>>]

_generate_metadata(segs) ==
    [title |-> _generate_episode_title(segs),
     description |-> _generate_episode_summary(segs),
     duration |-> ClockString(FloatAdd(DurationSum(segs), FloatOf(IntroOutroAllowance))),
     tags |-> SetPrefix(AllKeywords(segs), 10),
     category |-> "Technology",
     explicit |-> FALSE]

-----------------------------------------------------------------------------
(* Assembly.                                                               *)

Part(kind, v) == [part |-> kind, v |-> v]
Marker(text) == Part("marker", text)
Blank == Part("blank", "")

\* content['type'].upper(): None has no upper().
TypeUpper(block) == IF block.type.t = "str" THEN Ok(block.type) ELSE Raise("AttributeError: no attribute 'upper'")

\* An assembly that puts the transition to the next block before the block.
BlockParts_TransitionFirst(main_content, transitions, i) ==
    LET content == main_content[i + 1]
    IN  (IF i < Len(main_content) - 1 /\ i < Len(transitions)
         THEN <<Marker("--- TRANSITION ---"),
                Part("script", <<transitions[i + 1].script>>), Blank>>
         ELSE <<>>)
        \o << Part("segment_header", <<content.segment_id, content.type>>),
              Part("script", content.script), Blank >>

\* The parts of one content block, with the transition that follows it.
\* i is the block's index counted from 0.
BlockParts(main_content, transitions, i) ==
    LET content == main_content[i + 1]
    IN  << Part("segment_header", <<content.segment_id, content.type>>),
           Part("script", content.script) >>
        \o (IF content.production_notes # <<>>
            THEN <<Blank, Part("text", "PRODUCTION NOTES:")>>
                 \o [k \in 1..Len(content.production_notes) |->
                        Part("note", content.production_notes[k])]
            ELSE <<>>)
        \o <<Blank>>
        \o (IF i < Len(main_content) - 1 /\ i < Len(transitions)
            THEN <<Marker("--- TRANSITION ---"),
                   Part("script", <<transitions[i + 1].script>>), Blank>>
            ELSE <<>>)

RECURSIVE MainParts(_, _, _)
MainParts(main_content, transitions, i) ==
    IF i >= Len(main_content) THEN <<>>
    ELSE BlockParts(main_content, transitions, i)
         \o MainParts(main_content, transitions, i + 1)

_assemble_final_script(cfg, sections) ==
    IF \E i \in 1..Len(sections.main_content) : ~TypeUpper(sections.main_content[i]).ok
    THEN Raise("AttributeError: no attribute 'upper'")
    ELSE Ok(
        << Part("banner", "="),
           Part("title", ConfigGet(cfg, "show_name", Str("PODCAST"))),
           Part("generated_on", ""),
           Part("banner", "="),
           Blank,
           Marker("### INTRO ###"),
           Part("script", sections.intro.script),
           Blank,
           Marker("### MAIN CONTENT ###") >>
        \o MainParts(sections.main_content, sections.transitions, 0)
        \o << Marker("### OUTRO ###"),
               Part("script", sections.outro.script),
               Blank,
               Marker("### SHOW NOTES ###"),
               Part("text", "**Episode Summary:**"),
               Part("summary", sections.show_notes.episode_summary),
               Blank,
               Part("text", "**Key Points:**") >>
        \o [k \in 1..Len(sections.show_notes.key_points) |->
               Part("key_point", sections.show_notes.key_points[k])]
        \o << Blank, Part("text", "**Timestamps:**") >>
        \o [k \in 1..Len(sections.show_notes.timestamps) |->
               Part("timestamp", <<sections.show_notes.timestamps[k].time,
                                   sections.show_notes.timestamps[k].topic>>)]
        \o << Blank >>)

TransitionBuffer == 100     \* 0.1 minute for each transition

\* The running total after the content blocks are added to it, one after the
\* other.
RECURSIVE ContentDuration(_, _)
ContentDuration(total, main_content) ==
    IF main_content = <<>> THEN total
    ELSE ContentDuration(FloatAdd(total, FloatOf(Head(main_content).estimated_duration.v)),
                         Tail(main_content))

\* A buffer charged once for each content block.
BufferCount_PerSegment(sections) == Len(sections.main_content)

\* A buffer charged N - 1 times, also when N = 0.
BufferCount_NMinusOne(sections) == Len(sections.main_content) - 1

\* The number of transitions the buffer is charged for.
BufferCount(sections) == Len(sections.transitions)

_calculate_total_duration(sections) ==
    LET intro == FloatAdd(FloatOf(0), FloatOf(sections.intro.estimated_duration.v))
        content == ContentDuration(intro, sections.main_content)
        outro == FloatAdd(content, FloatOf(sections.outro.estimated_duration.v))
    IN  FloatRound2(FloatAdd(outro, FloatTimes(FloatOf(TransitionBuffer),
                                               BufferCount(sections))))

-----------------------------------------------------------------------------
(* generate_complete_script.                                               *)

\* The try block of lines 64-88: the success result, or the first exception.
ScriptBody(cfg, pt) ==
    LET sc == _determine_speaker_format(cfg, pt)
    IN  IF ~sc.ok THEN sc
        ELSE
        LET segs == SegmentsOf(pt).value
            main == _generate_main_content(segs, sc.value)
        IN  IF ~main.ok THEN main
            ELSE
            LET sections ==
                    [intro |-> _generate_intro(cfg, segs, sc.value),
                     main_content |-> main.value,
                     transitions |-> _generate_transitions(segs),
                     outro |-> _generate_outro(cfg, segs, sc.value),
                     show_notes |-> _generate_show_notes(segs),
                     metadata |-> _generate_metadata(segs),
                     speaker_config |-> sc.value]
                full_script == _assemble_final_script(cfg, sections)
            IN  IF ~full_script.ok THEN full_script
                ELSE Ok([script |-> full_script.value,
                         sections |-> sections,
                         status |-> "success",
                         estimated_duration |-> Num(_calculate_total_duration(sections)),
                         format |-> sc.value.format])

\* except Exception as e (lines 90-96): the error result.
ErrorResult(outcome) ==
    IF outcome.ok THEN outcome
    ELSE Ok([status |-> "error", message |-> outcome.message])

\* A generator that resolves the speaker format before entering the try block.
generate_complete_script_ResolveOutsideTry(cfg, pt) ==
    IF ~_determine_speaker_format(cfg, pt).ok THEN _determine_speaker_format(cfg, pt)
    ELSE ErrorResult(ScriptBody(cfg, pt))

generate_complete_script(cfg, pt) == ErrorResult(ScriptBody(cfg, pt))

-----------------------------------------------------------------------------
(* TranscriptProcessor.clean_transcript.                                   *)

\* \s+
WhitespaceRun(s, i) == IF s[i] \in Whitespace THEN SkipWhile(s, i, Whitespace) ELSE 0

\* \[[\d:]+\]
TimestampMarker(s, i) ==
    LET j == SkipWhile(s, i + 1, Digit \cup {":"})
    IN  IF s[i] = "[" /\ j > i + 1 /\ j <= Len(s) /\ s[j] = "]" THEN j + 1 ELSE 0

\* ^[A-Z\s]+\d*\s*:  under re.MULTILINE: ^ is the start of the text or the
\* position after a newline.
LeadingSpeakerTag(s, i) ==
    LET j == SkipWhile(s, i, Upper \cup Whitespace)
        k == SkipWhile(s, SkipWhile(s, j, Digit), Whitespace)
    IN  IF (i = 1 \/ s[i - 1] = "\n") /\ j > i /\ k <= Len(s) /\ s[k] = ":"
        THEN k + 1 ELSE 0

RoleNames ==
    << <<"s", "p", "e", "a", "k", "e", "r">>,
       <<"h", "o", "s", "t">>,
       <<"i", "n", "t", "e", "r", "v", "i", "e", "w", "e", "r">>,
       <<"g", "u", "e", "s", "t">> >>

\* \s*\d*\s*:\s*
RoleTagRest(s, e) ==
    LET k == SkipWhile(s, SkipWhile(s, SkipWhile(s, e, Whitespace), Digit), Whitespace)
    IN  IF k <= Len(s) /\ s[k] = ":" THEN SkipWhile(s, k + 1, Whitespace) ELSE 0

EndOfWord(s, e) == IF WordBoundary(s, e) THEN e ELSE 0

\* What follows the alternatives of a pattern: the rest of a role tag, or \b.
AfterAlternative(rest, s, e) ==
    IF rest = "role tag" THEN RoleTagRest(s, e) ELSE EndOfWord(s, e)

\* (a|b|...) followed by the rest of a pattern: the first alternative, in
\* order, after which the rest matches.
FirstAlternative(s, i, alts, rest) ==
    LET ends == [k \in DOMAIN alts |-> MatchIgnoreCase(s, i, alts[k])]
        ok == {k \in DOMAIN alts : ends[k] > 0 /\ AfterAlternative(rest, s, ends[k]) > 0}
    IN  IF ok = {} THEN 0
        ELSE AfterAlternative(rest, s, ends[CHOOSE k \in ok : \A l \in ok : k <= l])

\* \b(Speaker|Host|Interviewer|Guest)\s*\d*\s*:\s*  under re.IGNORECASE
InlineRoleTag(s, i) ==
    IF WordBoundary(s, i) THEN FirstAlternative(s, i, RoleNames, "role tag") ELSE 0

Fillers ==
    << <<"u", "m">>, <<"u", "h">>, <<"e", "r">>, <<"a", "h">>,
       <<"l", "i", "k", "e">>,
       <<"y", "o", "u", " ", "k", "n", "o", "w">> >>

\* \b(um|uh|er|ah|like|you know)\b  under re.IGNORECASE
FillerWord(s, i) ==
    IF WordBoundary(s, i) THEN FirstAlternative(s, i, Fillers, "word end") ELSE 0

\* The corrections of _fix_common_errors, in the order of the dict: the word,
\* what must follow it after whitespace ((?=\s+...), empty when nothing), and
\* the replacement.
Correction(word, ahead, repl) ==
    [re |-> "correction", word |-> word, ahead |-> ahead, repl |-> repl]

Corrections ==
    << Correction(<<"t", "h", "e", "r", "e", "s">>, <<>>,
                  <<"t", "h", "e", "r", "e", "'", "s">>),
       Correction(<<"w", "e", "r", "e">>, <<"g", "o", "i", "n", "g">>,
                  <<"w", "e", "'", "r", "e">>),
       Correction(<<"i", "t", "s">>, <<"a">>, <<"i", "t", "'", "s">>),
       Correction(<<"y", "o", "u", "v", "e">>, <<>>,
                  <<"y", "o", "u", "'", "v", "e">>),
       Correction(<<"w", "e", "v", "e">>, <<>>, <<"w", "e", "'", "v", "e">>),
       Correction(<<"t", "h", "e", "y", "r", "e">>, <<>>,
                  <<"t", "h", "e", "y", "'", "r", "e">>) >>

\* \bword\b, then the lookahead (?=\s+ahead) when the correction has one.
CorrectionMatch(c, s, i) ==
    LET e == MatchIgnoreCase(s, i, c.word)
    IN  IF /\ WordBoundary(s, i)
           /\ e > 0
           /\ WordBoundary(s, e)
           /\ \/ c.ahead = <<>>
              \/ /\ e <= Len(s)
                 /\ s[e] \in Whitespace
                 /\ MatchIgnoreCase(s, SkipWhile(s, e, Whitespace), c.ahead) > 0
        THEN e ELSE 0

\* \s*,\s*,
DoubleComma(s, i) ==
    LET j == SkipWhile(s, i, Whitespace)
        k == IF j <= Len(s) THEN SkipWhile(s, j + 1, Whitespace) ELSE j
    IN  IF j <= Len(s) /\ s[j] = "," /\ k <= Len(s) /\ s[k] = "," THEN k + 1 ELSE 0

\* \s*\?\s*
QuestionMark(s, i) ==
    LET j == SkipWhile(s, i, Whitespace)
    IN  IF j <= Len(s) /\ s[j] = "?" THEN SkipWhile(s, j + 1, Whitespace) ELSE 0

\* '\n\n', the separator of str.split
BlankLine(s, i) == IF s[i] = "\n" /\ i < Len(s) /\ s[i + 1] = "\n" THEN i + 2 ELSE 0

\* A pattern by name, and the match of a pattern at position i of s.
Re(name) == [re |-> name]

Match(pattern, s, i) ==
    CASE pattern.re = "whitespace" -> WhitespaceRun(s, i)
      [] pattern.re = "timestamp" -> TimestampMarker(s, i)
      [] pattern.re = "leading tag" -> LeadingSpeakerTag(s, i)
      [] pattern.re = "role tag" -> InlineRoleTag(s, i)
      [] pattern.re = "filler" -> FillerWord(s, i)
      [] pattern.re = "correction" -> CorrectionMatch(pattern, s, i)
      [] pattern.re = "double comma" -> DoubleComma(s, i)
      [] pattern.re = "question mark" -> QuestionMark(s, i)
      [] pattern.re = "blank line" -> BlankLine(s, i)

\* One step of the scan at position i, where the pattern matches up to m (0
\* when it does not match): the text put out and the position to go on from.
ScanAt(s, repl, i, m) ==
    IF m > i THEN [out |-> repl, next |-> m] ELSE [out |-> <<s[i]>>, next |-> i + 1]

\* Two scans in a row.
ScanJoin(left, right) == [out |-> left.out \o right.out, next |-> right.next]

\* The scan of positions lo..hi of s for a pattern, entered at position i: the
\* text it puts out, each match replaced by repl, and the position it goes on
\* from, past hi.  The range is halved so that the depth of the evaluation is
\* logarithmic in the length of s.
RECURSIVE Scan(_, _, _, _, _, _)
RECURSIVE ScanRest(_, _, _, _, _, _)

ScanRest(pattern, s, repl, lo, hi, left) ==
    ScanJoin(left, Scan(pattern, s, repl, lo, hi, left.next))

Scan(pattern, s, repl, lo, hi, i) ==
    IF i > hi THEN [out |-> <<>>, next |-> i]
    ELSE IF lo = hi THEN ScanAt(s, repl, i, Match(pattern, s, i))
    ELSE ScanRest(pattern, s, repl, ((lo + hi) \div 2) + 1, hi,
                  Scan(pattern, s, repl, lo, (lo + hi) \div 2, i))

\* re.sub(pattern, repl, s): the non-overlapping matches of the pattern, found
\* left to right, each replaced by repl.  No pattern here matches the empty
\* string.
ReSub(pattern, s, repl) == Scan(pattern, s, repl, 1, Len(s), 1).out

RECURSIVE ApplyCorrections(_, _)
ApplyCorrections(text, k) ==
    IF k > Len(Corrections) THEN text
    ELSE ApplyCorrections(ReSub(Corrections[k], text, Corrections[k].repl), k + 1)

_fix_common_errors(text) == ApplyCorrections(text, 1)

\* The steps of clean_transcript, in the order of the code; each is applied to
\* the result of the one before.
\* A cleaning that leaves whitespace as it is.
CollapseWhitespace_Kept(s) == s

CollapseWhitespace(s) == ReSub(Re("whitespace"), s, <<" ">>)
RemoveTimestamps(s) == ReSub(Re("timestamp"), s, <<>>)
RemoveLeadingTags(s) == ReSub(Re("leading tag"), s, <<>>)
RemoveRoleTags(s) == ReSub(Re("role tag"), s, <<>>)
RemoveFillers(s) == ReSub(Re("filler"), s, <<>>)
FixDoubleCommas(s) == ReSub(Re("double comma"), s, <<",">>)
FixQuestionMarks(s) == ReSub(Re("question mark"), s, <<"?">>)

CleanText(s) ==
    Strip(CollapseWhitespace(FixQuestionMarks(FixDoubleCommas(_fix_common_errors(
        RemoveFillers(RemoveRoleTags(RemoveLeadingTags(RemoveTimestamps(
            CollapseWhitespace(Strip(s)))))))))))

\* clean_transcript(raw_text): raw_text.strip() raises on a value that is not
\* a str.
clean_transcript(raw_text) ==
    IF raw_text.t = "text" THEN Ok(Text(CleanText(raw_text.v)))
    ELSE Raise("AttributeError: no attribute 'strip'")

-----------------------------------------------------------------------------
(* TranscriptProcessor.extract_key_segments and process_from_file.         *)

\* The elements of a finite set of integers in increasing order.
Ascending(S) ==
    [k \in 1..Cardinality(S) |-> CHOOSE p \in S : Cardinality({q \in S : q < p}) = k - 1]

\* ''.join(chars): a piece of text as one string.
RECURSIVE StringOf(_)
StringOf(chars) == IF chars = <<>> THEN "" ELSE Head(chars) \o StringOf(Tail(chars))

\* phrase in text, for a text already lowered.
Contains(text, phrase) ==
    \E i \in 1..(Len(text) - Len(phrase) + 1) :
        StringOf(SubSeq(text, i, i + Len(phrase) - 1)) = phrase

\* What stands where a separator was found; no character of a text equals it.
Separator == "\n\n"

\* The pieces of a text between the separators marked in it.
PiecesBetween(marked) ==
    LET cuts == Ascending({i \in 1..Len(marked) : marked[i] = Separator})
        from(k) == IF k = 1 THEN 1 ELSE cuts[k - 1] + 1
        to(k) == IF k > Len(cuts) THEN Len(marked) ELSE cuts[k] - 1
    IN  [k \in 1..(Len(cuts) + 1) |-> SubSeq(marked, from(k), to(k))]

\* text.split('\n\n'): the pieces between the occurrences of the separator,
\* found left to right without overlap; one piece more than separators.
SplitParagraphs(text) == PiecesBetween(ReSub(Re("blank line"), text, <<Separator>>))

\* A filter that keeps the blank pieces too.
NotBlank_KeepBlank(p) == TRUE

NotBlank(p) == Strip(p) # <<>>

StripEach(pieces) == [k \in 1..Len(pieces) |-> Strip(pieces[k])]

\* [p.strip() for p in text.split('\n\n') if p.strip()]
Paragraphs(text) == StripEach(SelectSeq(SplitParagraphs(text), NotBlank))

\* len(text.split()): the number of maximal runs of non-whitespace.
WordCount(text) ==
    Cardinality({i \in 1..Len(text) :
                    text[i] \notin Whitespace /\ (i = 1 \/ text[i - 1] \in Whitespace)})

WordsPerMinute == 150

\* round(word_count / 150, 2), in 1/1000 minute.  word_count / 150 is a whole
\* number of 1/300, never half-way between two 1/100, so the rounding is to
\* the nearest.
_estimate_speaking_duration(text) ==
    10 * ((100 * WordCount(text) + (WordsPerMinute \div 2)) \div WordsPerMinute)

MinKeywordLength == 4
MaxKeywords == 10

common_words ==
    {"that", "this", "with", "from", "they", "were", "been", "have", "their",
     "said", "each", "which", "what", "where", "when", "will", "more", "some",
     "time", "very", "into", "just", "also", "only", "over", "think", "know",
     "people", "other", "come", "could", "there", "first", "after", "back",
     "work", "way", "even", "want", "because", "these", "give", "most", "us"}

\* re.findall(r'\b[a-zA-Z]{4,}\b', text.lower()): the maximal runs of word
\* characters that are letters only and at least four of them, in order.
KeywordCandidates(text) ==
    LET low == Lowered(text)
        starts == {i \in 1..Len(low) :
                      /\ IsWordAt(low, i) /\ ~IsWordAt(low, i - 1)
                      /\ SkipWhile(low, i, Letter) = SkipWhile(low, i, WordChar)
                      /\ SkipWhile(low, i, Letter) - i >= MinKeywordLength}
        at == Ascending(starts)
    IN  [k \in 1..Len(at) |-> StringOf(SubSeq(low, at[k], SkipWhile(low, at[k], Letter) - 1))]

\* The orders in which a set of strings is iterated.  The program does not fix
\* the order (it follows the strings' hashes); the model takes the order of
\* first occurrence and its reverse, which are all the orders of a set of two.
SetOrders == {"forward", "backward"}

Reversed(q) == [k \in 1..Len(q) |-> q[Len(q) + 1 - k]]

\* list(set(items)) iterated in the given order.
ListOfSet(items, order) ==
    LET firsts == Ascending({k \in 1..Len(items) : \A j \in 1..(k - 1) : items[j] # items[k]})
        unique == [m \in 1..Len(firsts) |-> items[firsts[m]]]
    IN  IF order = "forward" THEN unique ELSE Reversed(unique)

\* A filter that keeps the common words too.
NotCommon_KeepAll(word) == TRUE

NotCommon(word) == word \notin common_words

_extract_keywords(text, order) ==
    Take(SelectSeq(ListOfSet(KeywordCandidates(text), order), NotCommon), MaxKeywords)

AnyPhrase(text, phrases) == \E p \in phrases : Contains(Lowered(text), p)

\* A classifier that tries the data phrases before the qa phrases.
_classify_segment_DataBeforeQa(text) ==
    IF AnyPhrase(text, {"introduction", "welcome", "hello", "today we"}) THEN "introduction"
    ELSE IF AnyPhrase(text, {"conclusion", "summary", "in closing", "to wrap up"}) THEN "conclusion"
    ELSE IF AnyPhrase(text, {"data", "statistics", "research", "study"}) THEN "data"
    ELSE IF AnyPhrase(text, {"question", "answer", "q:", "a:"}) THEN "qa"
    ELSE IF AnyPhrase(text, {"story", "example", "case", "experience"}) THEN "narrative"
    ELSE "content"

_classify_segment(text) ==
    IF AnyPhrase(text, {"introduction", "welcome", "hello", "today we"}) THEN "introduction"
    ELSE IF AnyPhrase(text, {"conclusion", "summary", "in closing", "to wrap up"}) THEN "conclusion"
    ELSE IF AnyPhrase(text, {"question", "answer", "q:", "a:"}) THEN "qa"
    ELSE IF AnyPhrase(text, {"data", "statistics", "research", "study"}) THEN "data"
    ELSE IF AnyPhrase(text, {"story", "example", "case", "experience"}) THEN "narrative"
    ELSE "content"

\* The id of the paragraph at position i (from 1) of the kept paragraphs.
ParagraphId_Unfiltered(text, i) ==
    LET all == SplitParagraphs(text)
        kept == Ascending({k \in 1..Len(all) : NotBlank(all[k])})
    IN  kept[i]

ParagraphId(text, i) == i

StrList(strings) == List([k \in 1..Len(strings) |-> Str(strings[k])])

Segment(text, paragraph, i, order) ==
    Dict([id |-> Num(ParagraphId(text, i)),
          text |-> Text(paragraph),
          word_count |-> Num(WordCount(paragraph)),
          estimated_duration |-> Num(_estimate_speaking_duration(paragraph)),
          topic_keywords |-> StrList(_extract_keywords(paragraph, order)),
          segment_type |-> Str(_classify_segment(paragraph))])

SegmentsOfParagraphs(text, paragraphs, order) ==
    [i \in 1..Len(paragraphs) |-> Segment(text, paragraphs[i], i, order)]

extract_key_segments(text, order) ==
    SegmentsOfParagraphs(text, Paragraphs(text), order)

\* The dict process_from_file returns, without its 'processed_at' time stamp.
ProcessedDict(status, segments, total, duration, original, cleaned, message) ==
    Dict([status |-> status, segments |-> segments,
          total_segments |-> total,
          estimated_duration |-> duration,
          original_length |-> original,
          cleaned_length |-> cleaned, message |-> message])

\* Lines 158-166: the result for a cleaned text and its segments.
SuccessResult(content, cleaned_text, segments) ==
    ProcessedDict(Str("success"), List(segments), Num(Len(segments)),
                  Num(SumSeq([i \in 1..Len(segments) |->
                                 segments[i].v.estimated_duration.v])),
                  Num(Len(content.v)), Num(Len(cleaned_text)), Absent)

\* Lines 167-173: the result when cleaning raised.
FailureResult(message) ==
    ProcessedDict(Str("error"), Absent, Absent, Absent, Absent, Absent, Str(message))

ResultOfCleaned(content, cleaned, order) ==
    IF ~cleaned.ok THEN FailureResult(cleaned.message)
    ELSE SuccessResult(content, cleaned.value.v,
                       extract_key_segments(cleaned.value.v, order))

process_from_file(content, order) ==
    ResultOfCleaned(content, clean_transcript(content), order)

-----------------------------------------------------------------------------
(* LLMIntegration (python-scripts/llm_integration.py).  The reply of the   *)
(* text-generation backend is an outcome: the exception the client library *)
(* raises (connection, HTTP status, rate limit), or the value it hands     *)
(* back: the message content for openai and anthropic, the JSON body for a *)
(* custom endpoint.                                                        *)

\* The providers _initialize_provider accepts.
Providers == {"openai", "anthropic", "custom"}

\* content.strip(): only a str has strip().
StripContent(content) ==
    IF content.t = "text" THEN Ok(Text(Strip(content.v)))
    ELSE Raise("AttributeError: no attribute 'strip'")

\* response.choices[0].message.content.strip(); an exception is logged and
\* raised again.
_call_openai(reply) == IF reply.ok THEN StripContent(reply.value) ELSE reply

\* response.content[0].text.strip()
_call_anthropic(reply) == IF reply.ok THEN StripContent(reply.value) ELSE reply

\* response.json().get('text', '').strip()
_call_custom_api(reply) ==
    IF ~reply.ok THEN reply
    ELSE IF ~IsDict(reply.value) THEN Raise("AttributeError: no attribute 'get'")
    ELSE StripContent(Get(reply.value.v, "text", Text(<<>>)))

\* len(x) of a str; None and numbers have no len().
LenOf(x) ==
    IF x.t = "text" THEN Ok(Len(x.v)) ELSE Raise("TypeError: object has no len()")

\* The except branch of enhance_transcript (lines 105-112).
EnhanceFallback(raw_transcript, message) ==
    Ok([enhanced_transcript |-> raw_transcript,
        status |-> "error",
        message |-> message])

\* The call of the active provider (lines 89-94).
CallProvider(active_provider, reply) ==
    IF active_provider = "openai" THEN _call_openai(reply)
    ELSE IF active_provider = "anthropic" THEN _call_anthropic(reply)
    ELSE _call_custom_api(reply)

\* An enhancer that lets the failure of the backend through.
enhance_transcript_NoFallback(active_provider, raw_transcript, enhancement_type, reply) ==
    LET response == CallProvider(active_provider, reply)
    IN  IF ~response.ok THEN response
        ELSE IF ~LenOf(raw_transcript).ok THEN LenOf(raw_transcript)
        ELSE Ok([enhanced_transcript |-> response.value,
                 original_length |-> LenOf(raw_transcript).value,
                 enhanced_length |-> Len(response.value.v),
                 enhancement_type |-> enhancement_type,
                 status |-> "success"])

\* enhance_transcript (lines 82-112).  Building the prompt formats the
\* transcript into an f-string, which succeeds for every value.
enhance_transcript(active_provider, raw_transcript, enhancement_type, reply) ==
    LET response == CallProvider(active_provider, reply)
    IN  IF ~response.ok THEN EnhanceFallback(raw_transcript, response.message)
        ELSE IF ~LenOf(raw_transcript).ok
             THEN EnhanceFallback(raw_transcript, LenOf(raw_transcript).message)
        ELSE Ok([enhanced_transcript |-> response.value,
                 original_length |-> LenOf(raw_transcript).value,
                 enhanced_length |-> Len(response.value.v),
                 enhancement_type |-> enhancement_type,
                 status |-> "success"])

-----------------------------------------------------------------------------
(* CloudflareWorkersClient (python-scripts/cloudflare_client.py).  The     *)
(* worker behind the API is not part of the client: what it answers to a   *)
(* request is a behaviour of the endpoint, and the data of an answer is    *)
(* kept as a value that names the request it answers.                      *)

\* A request posted to the worker.
Post(endpoint, payload) == [endpoint |-> endpoint, payload |-> payload]

\* The JSON body of an answer.
Body(success, data, error) == Dict([success |-> success, data |-> data, error |-> error])

\* What session.post and raise_for_status give for a behaviour of an endpoint.
Reply(endpoint, behaviour, data) ==
    CASE behaviour = "http_error" -> Raise("HTTPError: 500 Server Error for url: " \o endpoint)
      [] behaviour = "refused" -> Ok(Body(Bool(FALSE), Absent, Str("rejected by " \o endpoint)))
      [] behaviour = "no_error_text" -> Ok(Body(Absent, Absent, Absent))
      [] behaviour = "no_data" -> Ok(Body(Bool(TRUE), Absent, Absent))
      [] OTHER -> Ok(Body(Bool(TRUE), data, Absent))

\* The body of every API method (lines 66-83, 100-120, 136-155, 171-189):
\* result['data'] when result.get('success'), an exception otherwise.
ApiCall(reply) ==
    IF ~reply.ok THEN reply
    ELSE IF Truthy(Get(reply.value.v, "success", None))
         THEN IF reply.value.v.data = Absent THEN Raise("'data'")
              ELSE Ok(reply.value.v.data)
         ELSE Raise(Get(reply.value.v, "error", Str("Unknown error")).v)

\* The data of the worker's answers.
FetchedData(behaviour, source_url) ==
    IF behaviour = "ok_no_transcript" THEN Dict([transcript |-> Absent, source |-> source_url])
    ELSE Dict([transcript |-> source_url, source |-> source_url])

ProcessedData(transcript) == Dict([processed_from |-> transcript])

EnhancedData(behaviour, content) ==
    CASE behaviour = "ok_null_data" -> None
      [] behaviour = "ok_no_content" -> Dict([enhanced_content |-> Absent, of |-> content])
      [] OTHER -> Dict([enhanced_content |-> Dict([enhanced |-> content]), of |-> content])

ScriptData(behaviour, processed_transcript) ==
    CASE behaviour = "ok_no_metadata" ->
            Dict([script_of |-> processed_transcript, metadata |-> Absent])
      [] behaviour = "ok_null_metadata" ->
            Dict([script_of |-> processed_transcript, metadata |-> None])
      [] OTHER ->
            Dict([script_of |-> processed_transcript,
                  metadata |-> Dict([total_duration |-> Num(12000)])])

fetch_content(worker, source_url) ==
    ApiCall(Reply("/api/fetch-transcript", worker.fetch, FetchedData(worker.fetch, source_url)))

process_transcript(behaviour, transcript) ==
    ApiCall(Reply("/api/process-transcript", behaviour, ProcessedData(transcript)))

enhance_content(worker, content) ==
    ApiCall(Reply("/api/enhance-content", worker.enhance, EnhancedData(worker.enhance, content)))

generate_script(worker, processed_transcript) ==
    ApiCall(Reply("/api/generate-script", worker.generate,
                  ScriptData(worker.generate, processed_transcript)))

\* key in x: None is not iterable.
HasKey(x, key) ==
    IF IsDict(x) THEN Ok(x.v[key] # Absent)
    ELSE Raise("argument of type 'NoneType' is not iterable")

\* x[key] of a dict.
Item(x, key) ==
    IF ~IsDict(x) THEN Raise("TypeError: object is not subscriptable")
    ELSE IF x.v[key] = Absent THEN Raise("KeyError: '" \o key \o "'")
    ELSE Ok(x.v[key])

\* show_config or {}
EmptyDict == Dict([show_name |-> Absent])
ShowConfigOrEmpty(cfg) == IF Truthy(cfg) THEN cfg ELSE EmptyDict

\* What the caller gets: the returned workflow_result or the exception, with
\* the requests that were posted.
Returned(w, script_data, total_duration) ==
    [outcome |-> Ok([steps_completed |-> w.steps_completed \o <<"generate_script">>,
                     errors |-> w.errors,
                     fetched_content |-> w.fetched_content,
                     processed_transcript |-> w.processed_transcript,
                     enhanced_content |-> w.enhanced_content,
                     script |-> script_data,
                     success |-> TRUE,
                     total_duration |-> total_duration]),
     requests |-> w.requests]

Raised(failure, requests) == [outcome |-> failure, requests |-> requests]

\* script_data.get('metadata', {}).get('total_duration', 0)  (line 269)
TotalDurationOf(script_data) ==
    IF ~IsDict(script_data) THEN Raise("AttributeError: no attribute 'get'")
    ELSE LET metadata == Get(script_data.v, "metadata", Dict([total_duration |-> Absent]))
         IN  IF ~IsDict(metadata) THEN Raise("AttributeError: no attribute 'get'")
             ELSE Ok(Get(metadata.v, "total_duration", Num(0)))

\* Step 4 (lines 250-273); an exception goes to the outer handler, which
\* raises it again (lines 275-280).
GenerateStep(worker, cfg, use_llm, w) ==
    LET script_data == generate_script(worker, w.local_processed_transcript)
        requests == w.requests \o
            <<Post("/api/generate-script",
                   [processed_transcript |-> w.local_processed_transcript,
                    show_config |-> ShowConfigOrEmpty(cfg), use_llm |-> use_llm])>>
        posted == [w EXCEPT !.requests = requests]
    IN  IF ~script_data.ok THEN Raised(script_data, requests)
        ELSE IF ~TotalDurationOf(script_data.value).ok
             THEN Raised(TotalDurationOf(script_data.value), requests)
             ELSE Returned(posted, script_data.value, TotalDurationOf(script_data.value).value)

\* The except clause of step 3 (lines 246-248).
EnhancementFailed(w, failure) ==
    [w EXCEPT !.errors = w.errors \o <<"Enhancement failed: " \o failure.message>>]

\* Re-processing the enhanced content (lines 239-244).
ReprocessStep(worker, source_type, w, enhanced_content) ==
    LET again == process_transcript(worker.reprocess, enhanced_content)
        posted == [w EXCEPT !.requests = w.requests \o
                      <<Post("/api/process-transcript",
                             [transcript |-> enhanced_content, source_type |-> source_type])>>]
    IN  IF ~again.ok THEN EnhancementFailed(posted, again)
        ELSE [posted EXCEPT !.processed_transcript = again.value,
                            !.local_processed_transcript = again.value]

\* A step 3 whose handler raises the failure of the enhancement again.
EnhanceStep_Raising(worker, source_type, enhancement_type, transcript_text, w) ==
    LET enhanced == enhance_content(worker, transcript_text)
        posted == [w EXCEPT !.requests = w.requests \o
                      <<Post("/api/enhance-content",
                             [content |-> transcript_text,
                              enhancement_type |-> enhancement_type])>>]
    IN  IF ~enhanced.ok THEN [posted EXCEPT !.raised = enhanced]
        ELSE ReprocessStep(worker, source_type,
                           [posted EXCEPT !.enhanced_content = enhanced.value,
                                          !.steps_completed = w.steps_completed \o <<"enhance_content">>],
                           enhanced.value.v.enhanced_content)

\* Step 3 (lines 228-248), entered when use_llm and enhancement_type != 'skip'.
EnhanceStep(worker, source_type, enhancement_type, transcript_text, w) ==
    LET enhanced == enhance_content(worker, transcript_text)
        posted == [w EXCEPT !.requests = w.requests \o
                      <<Post("/api/enhance-content",
                             [content |-> transcript_text,
                              enhancement_type |-> enhancement_type])>>]
    IN  IF ~enhanced.ok THEN EnhancementFailed(posted, enhanced)
        ELSE LET recorded == [posted EXCEPT
                                 !.enhanced_content = enhanced.value,
                                 !.steps_completed = w.steps_completed \o <<"enhance_content">>]
                 has == HasKey(enhanced.value, "enhanced_content")
             IN  IF ~has.ok THEN EnhancementFailed(recorded, has)
                 ELSE IF has.value
                      THEN ReprocessStep(worker, source_type, recorded,
                                         enhanced.value.v.enhanced_content)
                      ELSE recorded

\* Steps 2 to 4 on the transcript text (lines 223-273).
ProcessAndGenerate(worker, source_type, cfg, enhancement_type, use_llm, transcript_text, w) ==
    LET first == process_transcript(worker.process, transcript_text)
        requests == w.requests \o
            <<Post("/api/process-transcript",
                   [transcript |-> transcript_text, source_type |-> source_type])>>
    IN  IF ~first.ok THEN Raised(first, requests)
        ELSE LET done == [w EXCEPT !.processed_transcript = first.value,
                                   !.local_processed_transcript = first.value,
                                   !.steps_completed = w.steps_completed \o <<"process_transcript">>,
                                   !.requests = requests]
                 after == IF use_llm /\ enhancement_type # "skip"
                          THEN EnhanceStep(worker, source_type, enhancement_type,
                                           transcript_text, done)
                          ELSE done
             IN  IF ~after.raised.ok THEN Raised(after.raised, after.requests)
                 ELSE GenerateStep(worker, cfg, use_llm, after)

\* The workflow before step 1: workflow_result, the local variable
\* processed_transcript, the requests posted, and the exception that has
\* left a step, if any.
NewWorkflow ==
    [steps_completed |-> <<>>, errors |-> <<>>, fetched_content |-> Absent,
     processed_transcript |-> Absent, enhanced_content |-> Absent,
     local_processed_transcript |-> Absent, requests |-> <<>>, raised |-> Ok(None)]

\* create_complete_podcast_script (lines 191-280).
create_complete_podcast_script(worker, source_input, source_type, cfg, enhancement_type, use_llm) ==
    IF source_type # "manual" THEN
        LET fetched == fetch_content(worker, source_input)
            requests == <<Post("/api/fetch-transcript",
                               [source_url |-> source_input, source_type |-> source_type])>>
        IN  IF ~fetched.ok THEN Raised(fetched, requests)
            ELSE IF ~Item(fetched.value, "transcript").ok
                 THEN Raised(Item(fetched.value, "transcript"), requests)
                 ELSE ProcessAndGenerate(worker, source_type, cfg, enhancement_type, use_llm,
                                         Item(fetched.value, "transcript").value,
                                         [NewWorkflow EXCEPT
                                             !.fetched_content = fetched.value,
                                             !.steps_completed = <<"fetch_content">>,
                                             !.requests = requests])
    ELSE ProcessAndGenerate(worker, source_type, cfg, enhancement_type, use_llm,
                            source_input, NewWorkflow)

-----------------------------------------------------------------------------
(* Config (config/config.py).  The object holds three parts, records of    *)
(* the fields of the dataclasses CloudflareConfig, LLMConfig and           *)
(* PodcastConfig; a configuration file is a record of sections, each a     *)
(* record of the keys it has.                                              *)

\* get_env_var(key, default): the variable when it is set, also to '', and
\* the default otherwise.
get_env_var(env, key, default) == IF env[key] = Absent THEN default ELSE env[key]

\* Lines 53-82: the three parts from the environment.
ConfigFromEnvironment(env) ==
    [cloudflare |->
        [worker_url |-> get_env_var(env, "CLOUDFLARE_WORKER_URL",
                                    Str("https://ai-podcast-script-api.your-domain.workers.dev")),
         api_key |-> get_env_var(env, "CLOUDFLARE_API_KEY", None),
         account_id |-> get_env_var(env, "CLOUDFLARE_ACCOUNT_ID", None),
         zone_id |-> None],
     llm |->
        [openai_api_key |-> get_env_var(env, "OPENAI_API_KEY", None),
         anthropic_api_key |-> get_env_var(env, "ANTHROPIC_API_KEY", None),
         default_provider |-> get_env_var(env, "DEFAULT_LLM_PROVIDER", Str("openai")),
         default_model |-> Str("gpt-3.5-turbo"),
         max_tokens |-> Num(2000),
         temperature |-> Str("0.3")],
     podcast |->
        [show_name |-> Str("AI Insights Podcast"),
         host_name |-> Str("Your Host"),
         tagline |-> Str("Exploring the future of AI"),
         intro_music_duration |-> Num(10),
         outro_music_duration |-> Num(15),
         target_duration |-> Num(30),
         sponsor_segments |-> Bool(FALSE),
         call_to_action |-> Bool(TRUE)]]

\* Lines 97-100: every key of the file's section that is a field of the part
\* is set on the part; the other keys are passed over.
UpdatePart(part, section) ==
    [field \in DOMAIN part |->
        IF field \in DOMAIN section THEN section[field] ELSE part[field]]

\* _load_from_file (lines 89-110) on the data of the file.
_load_from_file(cfg, config_data) ==
    [part \in DOMAIN cfg |->
        IF part \in DOMAIN config_data THEN UpdatePart(cfg[part], config_data[part])
        ELSE cfg[part]]

\* _load_config (lines 53-87): the environment, then the file if it exists.
_load_config(env, file) ==
    IF file = Absent THEN ConfigFromEnvironment(env)
    ELSE _load_from_file(ConfigFromEnvironment(env), file)

\* A to_dict that shows the keys as they are.
Masked_Plain(key) == key

\* '***' if key else None
Masked(key) == IF Truthy(key) THEN Str("***") ELSE None

\* to_dict (lines 112-139)
to_dict(cfg) ==
    [cloudflare |->
        [worker_url |-> cfg.cloudflare.worker_url,
         api_key |-> Masked(cfg.cloudflare.api_key),
         account_id |-> cfg.cloudflare.account_id,
         zone_id |-> cfg.cloudflare.zone_id],
     llm |->
        [openai_api_key |-> Masked(cfg.llm.openai_api_key),
         anthropic_api_key |-> Masked(cfg.llm.anthropic_api_key),
         default_provider |-> cfg.llm.default_provider,
         default_model |-> cfg.llm.default_model,
         max_tokens |-> cfg.llm.max_tokens,
         temperature |-> cfg.llm.temperature],
     podcast |-> cfg.podcast]

\* The config_dict of save_to_file (lines 145-166).
SavedConfig(cfg) ==
    [cloudflare |->
        [worker_url |-> cfg.cloudflare.worker_url,
         account_id |-> cfg.cloudflare.account_id,
         zone_id |-> cfg.cloudflare.zone_id],
     llm |->
        [default_provider |-> cfg.llm.default_provider,
         default_model |-> cfg.llm.default_model,
         max_tokens |-> cfg.llm.max_tokens,
         temperature |-> cfg.llm.temperature],
     podcast |-> cfg.podcast]

\* os.makedirs(os.path.dirname(file_path), exist_ok=True): the path of a
\* bare file name has the directory '', which makedirs does not take.
MakeDirs(has_directory) ==
    IF has_directory THEN Ok(None)
    ELSE Raise("FileNotFoundError: [Errno 2] No such file or directory: ''")

-----------------------------------------------------------------------------
(* ContentFetcher (python-scripts/content_fetcher.py).  The web site, the   *)
(* YouTube transcript service, the feed and the clock are not part of the  *)
(* fetcher: services holds what each of them answers, and whether the      *)
(* optional packages were importable.  A parsed page is kept as what the   *)
(* selectors of the program find in it; a piece of text of a page is a     *)
(* record of its text and its counts of characters and of words.           *)

SnippetLength == 30     \* len(text) > 30 in a container
FallbackLength == 50    \* len(text) > 50 among all paragraphs
TitleLength == 5        \* len(title) > 5

\* d[k] = v on a dict: the key is added, or its value replaced.
SetItem(d, k, v) == Dict((k :> v) @@ d.v)

\* sep.join(texts).
RECURSIVE JoinStrings(_, _)
JoinStrings(texts, sep) ==
    IF texts = <<>> THEN ""
    ELSE IF Len(texts) = 1 THEN texts[1]
    ELSE texts[1] \o sep \o JoinStrings(Tail(texts), sep)

TextsOf(pieces) == [i \in 1..Len(pieces) |-> pieces[i].text]
WordsOf(pieces) == SumSeq([i \in 1..Len(pieces) |-> pieces[i].words])

\* response.raise_for_status().
raise_for_status(response, url) ==
    IF response.status_code >= 400
    THEN Raise("404 Client Error: Not Found for url: " \o url.v)
    ELSE Ok(response)

\* session.get(url): requests refuses a url that is not a string with a scheme.
SessionGet(services, url) ==
    IF url = None
    THEN Raise("Invalid URL 'None': No scheme supplied. Perhaps you meant https://None?")
    ELSE services.site

\* The id that the three patterns capture from the url.
_extract_youtube_id(url) ==
    CASE url = None -> Raise("expected string or bytes-like object, got 'NoneType'")
      [] url = Str("https://youtu.be/ab1") -> Ok("ab1")
      [] url = Str("https://www.youtube.com/watch?v=ab1&t=5") -> Ok("ab1")
      [] OTHER -> Raise("Invalid YouTube URL - could not extract video ID")

\* title.replace(" - YouTube", "") on the parts of the title element.
WithoutSuffix(parts) == JoinStrings(SelectSeq(parts.v, LAMBDA p : p # " - YouTube"), "")

\* The session is asked for the watch page of the video whatever the url was.
_get_youtube_metadata(services, video_id) ==
    LET watch == "https://www.youtube.com/watch?v=" \o video_id
        unknown == Dict([title |-> Str("Unknown"), description |-> Str(""), url |-> Str(watch)])
    IN  IF ~services.site.ok THEN unknown
        ELSE LET page == services.site.value.page
             IN  Dict([title |-> IF page.title_tag = Absent THEN Str("Unknown")
                                 ELSE Str(WithoutSuffix(page.title_tag)),
                       description |-> IF page.short_description = Absent THEN Str("")
                                       ELSE page.short_description,
                       url |-> Str(watch)])

\* transcript_list.find_transcript(['en', 'en-US']), and the first transcript
\* of the list when that raises.
FindTranscript(transcripts) ==
    LET english == SelectSeq(transcripts, LAMBDA t : t.language_code \in {"en", "en-US"})
    IN  IF english # <<>> THEN Ok(english[1])
        ELSE IF transcripts # <<>> THEN Ok(transcripts[1])
        ELSE Raise("")

YouTubeResult(url, video_id, transcript, transcript_data, metadata) ==
    Dict([transcript |-> Str(JoinStrings(TextsOf(transcript_data), " ")),
          source_url |-> url,
          source_type |-> Str("youtube"),
          video_id |-> Str(video_id),
          duration |-> Num(SumSeq([i \in 1..Len(transcript_data) |->
                                      IF transcript_data[i].duration = Absent THEN 0
                                      ELSE transcript_data[i].duration.v])),
          language |-> Str(transcript.language),
          metadata |-> metadata,
          status |-> Str("success")])

YouTubeAttempt(services, url) ==
    LET video_id == _extract_youtube_id(url)
    IN  IF ~video_id.ok THEN video_id
        ELSE IF ~services.videos.ok THEN services.videos
        ELSE LET transcript == FindTranscript(services.videos.value)
             IN  IF ~transcript.ok THEN transcript
                 ELSE IF ~transcript.value.fetch.ok THEN transcript.value.fetch
                 ELSE Ok(YouTubeResult(url, video_id.value, transcript.value,
                                       transcript.value.fetch.value,
                                       _get_youtube_metadata(services, video_id.value)))

\* except Exception as e: raise Exception(f"{prefix}: {str(e)}").
Wrapped(prefix, attempt) ==
    IF attempt.ok THEN attempt ELSE Raise(prefix \o ": " \o attempt.message)

_fetch_youtube_transcript(services, url, options) ==
    IF ~services.youtube_transcript_available
    THEN Raise("youtube_transcript_api package not installed. Run: pip install youtube-transcript-api")
    ELSE Wrapped("YouTube transcript fetch failed", YouTubeAttempt(services, url))

\* The paragraphs of a container that are longer than the threshold.
LongerThan(pieces, threshold) == SelectSeq(pieces, LAMBDA p : p.chars > threshold)

Joined(pieces) == [text |-> JoinStrings(TextsOf(pieces), "\n\n"), words |-> WordsOf(pieces)]

\* page.containers: for each article selector that matches, in the order of
\* the selectors, the p and div elements of its first match.
RECURSIVE FirstContainer(_)
FirstContainer(containers) ==
    IF containers = <<>> THEN <<>>
    ELSE IF LongerThan(Head(containers), SnippetLength) # <<>>
         THEN LongerThan(Head(containers), SnippetLength)
         ELSE FirstContainer(Tail(containers))

_extract_article_content(page) ==
    IF FirstContainer(page.containers) # <<>> THEN Joined(FirstContainer(page.containers))
    ELSE IF LongerThan(page.paragraphs, FallbackLength) # <<>>
         THEN Joined(LongerThan(page.paragraphs, FallbackLength))
         ELSE page.text

\* page.titles: the first match of each title selector that matches, in the
\* order of the selectors.
_extract_title(page) ==
    LET usable == SelectSeq(page.titles, LAMBDA t : t.text # "" /\ t.chars > TitleLength)
    IN  IF usable # <<>> THEN usable[1].text ELSE "Untitled Article"

\* page.speech: the first match of the speech selectors, Absent without one.
_extract_speech_content(page) ==
    IF page.speech # Absent THEN page.speech ELSE _extract_article_content(page)

PageResult(url, source_type, content, title) ==
    Dict([transcript |-> Str(content.text),
          source_url |-> url,
          source_type |-> Str(source_type),
          title |-> Str(title),
          word_count |-> Num(content.words),
          status |-> Str("success")])

\* session.get and raise_for_status, then the page that BeautifulSoup parses.
PageOf(services, url) ==
    LET response == SessionGet(services, url)
    IN  IF ~response.ok THEN response
        ELSE IF ~raise_for_status(response.value, url).ok
             THEN raise_for_status(response.value, url)
             ELSE Ok(response.value.page)

_fetch_news_article(services, url, options) ==
    LET page == PageOf(services, url)
    IN  Wrapped("News article fetch failed",
                IF ~page.ok THEN page
                ELSE Ok(PageResult(url, "news_article",
                                   _extract_article_content(page.value),
                                   _extract_title(page.value))))

_fetch_web_article(services, url, options) == _fetch_news_article(services, url, options)

\* BeautifulSoup(transcript, 'html.parser').get_text(): the tags are dropped.
GetText(parts) ==
    JoinStrings(TextsOf(SelectSeq(parts, LAMBDA p : ~p.tag)), "")

\* entry.get('description', '') or entry.get('summary', ''), as parts.
EntryText(entry) ==
    LET description == IF entry.description = Absent THEN <<>> ELSE entry.description.v
        summary == IF entry.summary = Absent THEN <<>> ELSE entry.summary.v
    IN  IF JoinStrings(TextsOf(description), "") # "" THEN description ELSE summary

\* episode_index >= len(feed.entries) on what options.get gave.
EpisodeIndex(options, entries) ==
    LET episode_index == Get(options.v, "episode_index", Num(0))
    IN  IF ~IsNum(episode_index)
        THEN Raise("'>=' not supported between instances of 'str' and 'int'")
        ELSE IF episode_index.v >= Len(entries) THEN Ok(0)
        ELSE Ok(episode_index.v)

RssResult(rss_url, entry) ==
    Dict([transcript |-> Str(GetText(EntryText(entry))),
          source_url |-> rss_url,
          source_type |-> Str("podcast_rss"),
          title |-> IF entry.title = Absent THEN Str("Unknown") ELSE entry.title,
          episode_url |-> IF entry.link = Absent THEN Str("") ELSE entry.link,
          published |-> IF entry.published = Absent THEN Str("") ELSE entry.published,
          status |-> Str("success")])

_fetch_from_rss(services, rss_url, options) ==
    LET entries == services.feed
        episode_index == EpisodeIndex(options, entries)
    IN  Wrapped("RSS feed parsing failed",
                IF entries = <<>> THEN Raise("No entries found in RSS feed")
                ELSE IF ~episode_index.ok THEN episode_index
                ELSE Ok(RssResult(rss_url, entries[episode_index.value + 1])))

\* url.endswith('.rss') or url.endswith('.xml') or 'rss' in url.lower().
IsFeedUrl(url) == url \in {Str("https://pod.example/feed.rss")}

_fetch_podcast_transcript(services, url, options) ==
    IF ~services.feedparser_available
    THEN Raise("feedparser package not installed. Run: pip install feedparser")
    ELSE Wrapped("Podcast transcript fetch failed",
                 IF url = None THEN Raise("'NoneType' object has no attribute 'endswith'")
                 ELSE IF IsFeedUrl(url) THEN _fetch_from_rss(services, url, options)
                 ELSE _fetch_web_article(services, url, options))

_fetch_speech_text(services, url, options) ==
    LET page == PageOf(services, url)
    IN  Wrapped("Speech text fetch failed",
                IF ~page.ok THEN page
                ELSE Ok(PageResult(url, "speech_text",
                                   _extract_speech_content(page.value),
                                   _extract_title(page.value))))

_fetch_pdf_content(services, url, options) ==
    Wrapped("PDF content fetch failed",
            Raise("PDF content extraction not yet implemented. Please convert PDF to text first."))

\* The keys of self.supported_sources.
supported_sources ==
    {"youtube", "news_url", "podcast_rss", "speech_text", "pdf_url", "web_article"}

\* self.supported_sources[source_type](source_url, options).
Handler(services, source_type, source_url, options) ==
    CASE source_type = "youtube" -> _fetch_youtube_transcript(services, source_url, options)
      [] source_type = "news_url" -> _fetch_news_article(services, source_url, options)
      [] source_type = "podcast_rss" -> _fetch_podcast_transcript(services, source_url, options)
      [] source_type = "speech_text" -> _fetch_speech_text(services, source_url, options)
      [] source_type = "pdf_url" -> _fetch_pdf_content(services, source_url, options)
      [] source_type = "web_article" -> _fetch_web_article(services, source_url, options)

\* str(source_type) in the f-string.
TypeString(source_type) == IF source_type = None THEN "None" ELSE source_type.v

\* The body of the try block of fetch_content: a list is not hashable, so
\* the membership test on the dict raises for it.
\* options or {}.
OrEmpty(options) == IF Truthy(options) THEN options ELSE Dict([episode_index |-> Absent])

\* source_type in self.supported_sources, for a source type that can be hashed.
Supported(source_type) == source_type.t = "str" /\ source_type.v \in supported_sources

FetchAttempt(services, source_url, source_type, options) ==
    IF IsList(source_type) THEN Raise("unhashable type: 'list'")
    ELSE IF Supported(source_type)
    THEN LET result == Handler(services, source_type.v, source_url, OrEmpty(options))
         IN  IF result.ok THEN Ok(SetItem(result.value, "fetched_at", Str(services.now)))
             ELSE result
    ELSE Raise("Unsupported source type: " \o TypeString(source_type))

FailedFetch(services, source_url, source_type, message) ==
    Dict([error |-> Str(message),
          source_url |-> source_url,
          source_type |-> source_type,
          status |-> Str("failed"),
          fetched_at |-> Str(services.now)])

ContentFetcher_fetch_content_Uncaught(services, source_url, source_type, options) ==
    FetchAttempt(services, source_url, source_type, options)

ContentFetcher_fetch_content(services, source_url, source_type, options) ==
    LET attempt == FetchAttempt(services, source_url, source_type, options)
    IN  IF attempt.ok THEN attempt
        ELSE Ok(FailedFetch(services, source_url, source_type, attempt.message))

-----------------------------------------------------------------------------
(* Inputs.                                                                 *)

SegmentDict(id, text, duration, keywords, type) ==
    Dict([id |-> id, text |-> text, word_count |-> Absent,
          estimated_duration |-> duration, topic_keywords |-> keywords,
          segment_type |-> type])

\* The segment dicts a caller's processed transcript is made of.
SegmentPool ==
    { SegmentDict(Num(1), Text(<<"H", "i", ".">>), Num(1500),
                  List(<<Str("show"), Str("studies")>>), Str("introduction")),
      SegmentDict(Num(2), Text(<<"U", "p", " ", "3", "%", ".">>), Num(2004),
                  List(<<Str("studies")>>), Str("data")),
      SegmentDict(Num(3), Text(<<"A", " ", "c", "a", "s", "e", ".">>), Num(3337),
                  List(<<>>), Str("narrative")),
      SegmentDict(Num(7), Text(<<"W", "h", "y", "?">>), Num(667),
                  List(<<Str("question")>>), Str("qa")),
      SegmentDict(Absent, Absent, Absent, Absent, Str("qa")),
      SegmentDict(Num(5), Text(<<"x">>), None, List(<<>>), Str("content")),
      SegmentDict(Num(4), Text(<<"O", "k">>), Num(150), List(<<Str("show")>>), Absent),
      SegmentDict(Num(9), Text(<<"e", "n", "d">>), Num(10), Absent, None) }

SegmentLists == UNION {[1..n -> SegmentPool] : n \in 0..MaxSegments}

\* The processed transcripts handed to the generator: a dict with a segment
\* list, {} , a dict whose 'segments' is None, and None.
Transcript(segments) ==
    ProcessedDict(Absent, segments, Absent, Absent, Absent, Absent, Absent)

ProcessedTranscripts ==
    {Transcript(List(q)) : q \in SegmentLists}
    \cup {Transcript(Absent), Transcript(None), None}

\* The show configurations handed to PodcastScriptGenerator(...).
GivenConfigs ==
    { None,
      ShowConfig(Str("Test Podcast"), Str("Test Host"),
                 Str("Testing AI podcast generation"), Absent, Absent, Absent),
      ShowConfig(Str("AI Insights Podcast"), Absent, Absent, Absent, Absent,
                 SpeakersDict(Str("single_host"), Str("ALEX"), Absent, Absent)),
      ShowConfig(Str("AI Insights Podcast"), Absent, Absent, Absent, Absent,
                 SpeakersDict(Str("interview"), Str("ALEX"), Str("DR. SMITH"), Absent)),
      ShowConfig(Str("AI Insights Podcast"), Absent, Absent, Absent, Absent,
                 SpeakersDict(Str("multi_host"), Str("ALEX"), Absent, Str("JORDAN"))),
      ShowConfig(Absent, Absent, Absent, Num(5), Num(20),
                 SpeakersDict(Str("panel"), Absent, Absent, Absent)),
      ShowConfig(Str("Solo"), Absent, Absent, Absent, Absent,
                 SpeakersDict(Absent, None, Absent, Absent)),
      ShowConfig(Str("Broken"), Absent, Absent, Absent, Absent, Str("single_host")),
      Str("not a mapping") }

\* The texts made of up to n pieces of a set of pieces.
RECURSIVE Concat(_)
Concat(pieces) == IF pieces = <<>> THEN <<>> ELSE Head(pieces) \o Concat(Tail(pieces))

TextsOver(pieces, n) ==
    {Text(Concat(q)) : q \in UNION {[1..k -> pieces] : k \in 0..n}}

\* Pieces of a transcript to be cleaned: the characters of a timestamp
\* marker, a space, a filler, the two words of the two-word filler (the first
\* with the space after it), a role name.
CleanPieces ==
    { <<"[">>, <<"]">>, <<"1">>, <<":">>, <<" ">>, <<"u", "m">>,
      <<"y", "o", "u", " ">>, <<"k", "n", "o", "w">>, <<"H", "o", "s", "t">> }

\* Pieces of a transcript to be segmented: two words that are keywords and
\* classify a paragraph, a space, a line break and a blank line.
SegmentPieces ==
    { <<"d", "a", "t", "a">>, <<"s", "t", "o", "r", "y">>, <<" ">>,
      <<"\n">>, <<"\n", "\n">> }

\* The three-paragraph transcript of the end-to-end scenario.
ScenarioText ==
    Text(<<"W", "e", "l", "c", "o", "m", "e", " ", "t", "o", " ", "o", "u", "r",
           " ", "s", "h", "o", "w", " ", "a", "b", "o", "u", "t", " ", "A", "I",
           ".", "\n", "\n",
           "R", "e", "c", "e", "n", "t", " ", "s", "t", "u", "d", "i", "e", "s",
           " ", "s", "h", "o", "w", " ", "3", "0", "0", "%", " ", "i", "m", "p",
           "r", "o", "v", "e", "m", "e", "n", "t", ".", "\n", "\n",
           "L", "e", "t", " ", "m", "e", " ", "s", "h", "a", "r", "e", " ", "a",
           " ", "s", "t", "o", "r", "y", " ", "a", "b", "o", "u", "t", " ", "i",
           "m", "p", "l", "e", "m", "e", "n", "t", "a", "t", "i", "o", "n", ".">>)

\* Pieces of a paragraph to be classified: a phrase of each class (one of
\* them capitalised), the two words of a two-word phrase, a space and a
\* letter of no class.
ClassPieces ==
    { <<"H", "e", "l", "l", "o">>, <<"t", "o", "d", "a", "y">>, <<"w", "e">>,
      <<"s", "u", "m", "m", "a", "r", "y">>, <<"q", ":">>,
      <<"d", "a", "t", "a">>, <<"c", "a", "s", "e">>, <<" ">>, <<"x">> }

\* Pieces of a transcript handed to the enhancer.
EnhancePieces == {<<"u", "m">>, <<" ">>, <<"d", "a", "t", "a">>}

\* Replies of the text-generation backend: three ways of raising, a content
\* with blanks around it, an empty content, a content of None.
LLMFailures ==
    { Raise("ConnectionError: connection refused"),
      Raise("HTTPError: 500 Server Error"),
      Raise("RateLimitError: rate limit exceeded") }

LLMContents == { Text(<<" ", "o", "k", ".", "\n">>), Text(<<>>), None }

\* The JSON bodies of a custom endpoint: with 'text', without it, with a
\* 'text' that is not a string, and a body that is not an object.
CustomBodies ==
    { Dict([text |-> c]) : c \in LLMContents \cup {Absent, Num(0)} } \cup {List(<<>>)}

LLMReplies(active_provider) ==
    LLMFailures \cup {Ok(v) : v \in IF active_provider = "custom" THEN CustomBodies
                                     ELSE LLMContents}

EnhancementTypes == {"comprehensive", "minimal", "skip"}

\* Behaviours of the worker's endpoints, and the workers they make.
FetchBehaviours == {"ok", "ok_no_transcript", "http_error"}
ProcessBehaviours == {"ok", "http_error", "refused"}
EnhanceBehaviours ==
    {"ok", "ok_no_content", "ok_null_data", "http_error", "refused", "no_error_text", "no_data"}
GenerateBehaviours == {"ok", "ok_no_metadata", "ok_null_metadata", "http_error", "refused"}

Workers ==
    [fetch : FetchBehaviours, process : ProcessBehaviours, enhance : EnhanceBehaviours,
     reprocess : ProcessBehaviours, generate : GenerateBehaviours]

SourceInputs == {Text(<<>>), Text(<<"d", "a", "t", "a">>)}
SourceTypes == {"manual", "youtube"}

\* Pieces of a paragraph whose keywords are extracted: a capitalised word, a
\* common word, a word of three letters, a word, a digit and a space.
KeywordPieces ==
    { <<"D", "a", "t", "a">>, <<"t", "h", "a", "t">>, <<"a", "b", "c">>,
      <<"s", "t", "o", "r", "y">>, <<"1">>, <<" ">> }

\* A paragraph of twelve different keywords, a common word and a repeated word.
ManyWords ==
    <<
      "a", "l", "p", "h", "a", " ", "b", "r", "a", "v", "o", " ", "c", "h",
      "a", "r", "l", "i", "e", " ", "d", "e", "l", "t", "a", " ", "e", "c",
      "h", "o", " ", "f", "o", "x", "t", "r", "o", "t", " ", "g", "o", "l",
      "f", " ", "h", "o", "t", "e", "l", " ", "i", "n", "d", "i", "a", " ",
      "j", "u", "l", "i", "e", "t", " ", "k", "i", "l", "o", " ", "l", "i",
      "m", "a", " ", "t", "h", "a", "t", " ", "a", "l", "p", "h", "a", " " >>

KeywordTexts ==
    TextsOver(KeywordPieces, MaxTokens)
    \cup {Text(ManyWords \o t.v) : t \in TextsOver(KeywordPieces, MaxTokens - 2)}

\* Values of an API key in the environment or in a file: unset, empty, set.
ApiKeys == {Absent, Str(""), Str("sk-live-1"), Str("sk-live-2")}

Environments ==
    [CLOUDFLARE_WORKER_URL : {Absent},
     CLOUDFLARE_API_KEY : ApiKeys,
     CLOUDFLARE_ACCOUNT_ID : {Absent, Str("account-1")},
     OPENAI_API_KEY : ApiKeys,
     ANTHROPIC_API_KEY : ApiKeys,
     DEFAULT_LLM_PROVIDER : {Absent, Str("anthropic")}]

\* The environment with none of the variables set.
NoEnvironment == CHOOSE env \in Environments : \A key \in DOMAIN env : env[key] = Absent

\* Configuration files: none, one that sets two keys and a key the parts do
\* not have, one that clears a key, and one as save_to_file writes it.
ConfigFiles ==
    { Absent,
      [cloudflare |-> [api_key |-> Str("cf-file-key"), region |-> Str("eu")],
       llm |-> [openai_api_key |-> Str("sk-file-key")]],
      [llm |-> [anthropic_api_key |-> None, default_model |-> Str("gpt-4")]],
      SavedConfig(ConfigFromEnvironment(NoEnvironment)) }

\* The fields of the parts that hold an API key.
ApiKeyFields ==
    { <<"cloudflare", "api_key">>, <<"llm", "openai_api_key">>,
      <<"llm", "anthropic_api_key">> }

NoText == [t |-> "unset"]
NoTranscript == [t |-> "unset"]
\* Pieces of text of a page, with their counts of characters and of words.
Piece(text, chars, words) == [text |-> text, chars |-> chars, words |-> words]

ShortPiece == Piece("Read more", 9, 2)
SnippetPiece == Piece("A paragraph of forty characters or so...", 40, 7)
LongPiece == Piece("A paragraph that runs to sixty characters, a little more too", 60, 11)
WholeText == Piece("Menu Read more", 14, 3)

Page(title_tag, titles, speech, containers, paragraphs) ==
    [title_tag |-> title_tag, short_description |-> Absent, titles |-> titles,
     speech |-> speech, containers |-> containers, paragraphs |-> paragraphs,
     text |-> WholeText]

Pages ==
    {Page(List(<<"A talk", " - YouTube">>), <<Piece("A talk - YouTube", 16, 4)>>, Absent,
          <<<<ShortPiece>>, <<SnippetPiece, ShortPiece, LongPiece>>>>, <<LongPiece>>),
     Page(Absent, <<Piece("News", 4, 1)>>, Piece("My fellow citizens", 18, 3),
          <<>>, <<SnippetPiece, LongPiece, LongPiece>>),
     Page(Absent, <<>>, Absent, <<<<ShortPiece>>>>, <<SnippetPiece>>)}

\* What the site answers to session.get.
Sites ==
    {Raise("HTTPSConnectionPool(host='news.example', port=443): Max retries exceeded")}
    \cup {Ok([status_code |-> status_code, page |-> page]) : status_code \in {200, 404}, page \in Pages}

Entry(text, duration) == [text |-> text, duration |-> duration]

VideoTranscript(language, language_code, fetch) ==
    [language |-> language, language_code |-> language_code, fetch |-> fetch]

Fetched == Ok(<<Entry("hello", Num(1500)), Entry("world", Absent), Entry("again", Num(2250))>>)

\* What the transcript service answers to list_transcripts: the exception
\* it raises, or the transcripts of the video.
Videos ==
    {Raise("Subtitles are disabled for this video"),
     Ok(<<>>),
     Ok(<<VideoTranscript("German", "de", Fetched), VideoTranscript("English", "en", Fetched)>>),
     Ok(<<VideoTranscript("German", "de", Ok(<<>>))>>),
     Ok(<<VideoTranscript("English (United States)", "en-US", Raise("no element found: line 1, column 0"))>>)}

HtmlPart(tag, text) == [tag |-> tag, text |-> text]

FeedEntry(description, summary, title) ==
    [description |-> description, summary |-> summary, title |-> title,
     link |-> Absent, published |-> Str("Mon, 01 Jan 2024 10:00:00 GMT")]

\* feedparser.parse(url).entries.
Feeds ==
    {<<>>,
     <<FeedEntry(List(<<HtmlPart(TRUE, "<p>"), HtmlPart(FALSE, "First episode"), HtmlPart(TRUE, "</p>")>>),
                 Absent, Str("Episode 1"))>>,
     <<FeedEntry(Absent, List(<<HtmlPart(FALSE, "Summary only")>>), Absent),
       FeedEntry(List(<<>>), Absent, Str("Episode 2"))>>}

Urls ==
    {None, Str("https://youtu.be/ab1"), Str("https://www.youtube.com/watch?v=ab1&t=5"),
     Str("https://news.example/story"), Str("https://pod.example/feed.rss")}

\* The source types a caller passes: the supported ones, an unsupported one,
\* None and a list.
AskedTypes ==
    {Str(source_type) : source_type \in supported_sources}
    \cup {Str("audio_file"), None, List(<<>>)}

FetchOptions ==
    {None, Dict([episode_index |-> Absent]), Dict([episode_index |-> Num(1)]),
     Dict([episode_index |-> Num(7)]), Dict([episode_index |-> Str("1")])}

Services ==
    [youtube_transcript_available : BOOLEAN, feedparser_available : BOOLEAN,
     site : Sites, videos : Videos, feed : Feeds, now : {"2024-01-01T10:00:00.000001"}]

\* No LLMIntegration and no Config object has been constructed, there is no
\* configuration file and no remote service is called.
NoObject == [t |-> "unconstructed"]
NoObjects ==
    llm = NoObject /\ config = NoObject /\ config_file = Absent /\ backend = NoObject

NoReturn == [ok |-> TRUE, value |-> "none"]

-----------------------------------------------------------------------------
(* The generator called on a processed transcript.                         *)

InitGenerator ==
    /\ \E given \in GivenConfigs : show_config = InitShowConfig(given)
    /\ file_content = NoText
    /\ processed \in ProcessedTranscripts
    /\ call = "none"
    /\ ret = NoReturn
    /\ NoObjects

GenerateCompleteScript ==
    /\ call \in {"none", "process_from_file"}
    /\ processed # NoTranscript
    /\ call' = "generate_complete_script"
    /\ ret' = generate_complete_script(show_config, processed)
    /\ UNCHANGED <<show_config, file_content, processed, llm, config, config_file, backend>>

DetermineSpeakerFormat ==
    /\ call = "none"
    /\ processed # NoTranscript
    /\ call' = "_determine_speaker_format"
    /\ ret' = _determine_speaker_format(show_config, processed)
    /\ UNCHANGED <<show_config, file_content, processed, llm, config, config_file, backend>>

GenerateTransitions ==
    /\ call = "none"
    /\ processed # NoTranscript
    /\ call' = "_generate_transitions"
    /\ ret' = (IF SegmentsOf(processed).ok
               THEN Ok(_generate_transitions(SegmentsOf(processed).value))
               ELSE SegmentsOf(processed))
    /\ UNCHANGED <<show_config, file_content, processed, llm, config, config_file, backend>>

NextGenerator == GenerateCompleteScript \/ DetermineSpeakerFormat \/ GenerateTransitions

Spec == InitGenerator /\ [][NextGenerator]_vars

-----------------------------------------------------------------------------
(* The processor called on a text, and the generator (with the default     *)
(* show configuration) on what process_from_file returned.                 *)

InitProcessor ==
    /\ show_config = InitShowConfig(None)
    /\ file_content \in TextsOver(SegmentPieces, MaxTokens) \cup {ScenarioText, None}
    /\ processed = NoTranscript
    /\ call = "none"
    /\ ret = NoReturn
    /\ NoObjects

CleanTranscript ==
    /\ call = "none"
    /\ file_content # NoText
    /\ call' = "clean_transcript"
    /\ ret' = clean_transcript(file_content)
    /\ UNCHANGED <<show_config, file_content, processed, llm, config, config_file, backend>>

\* extract_key_segments(text) on the text as given; text.split raises on a
\* value that is not a str.
ExtractKeySegments ==
    /\ call = "none"
    /\ file_content # NoText
    /\ call' = "extract_key_segments"
    /\ \E order \in SetOrders :
           ret' = (IF file_content.t = "text"
                   THEN Ok(List(extract_key_segments(file_content.v, order)))
                   ELSE Raise("AttributeError: no attribute 'split'"))
    /\ UNCHANGED <<show_config, file_content, processed, llm, config, config_file, backend>>

ProcessFromFile ==
    /\ call = "none"
    /\ file_content # NoText
    /\ call' = "process_from_file"
    /\ \E order \in SetOrders :
           /\ processed' = process_from_file(file_content, order)
           /\ ret' = Ok(processed')
    /\ UNCHANGED <<show_config, file_content, llm, config, config_file, backend>>

NextProcessor ==
    CleanTranscript \/ ExtractKeySegments \/ ProcessFromFile \/ GenerateCompleteScript

SpecProcessor == InitProcessor /\ [][NextProcessor]_vars

-----------------------------------------------------------------------------
(* clean_transcript called on texts of timestamp, tag and filler pieces.   *)

InitCleaner ==
    /\ show_config = InitShowConfig(None)
    /\ file_content \in TextsOver(CleanPieces, MaxTokens)
    /\ processed = NoTranscript
    /\ call = "none"
    /\ ret = NoReturn
    /\ NoObjects

NextCleaner == CleanTranscript

SpecCleaner == InitCleaner /\ [][NextCleaner]_vars

-----------------------------------------------------------------------------
(* _classify_segment called on paragraphs of class phrases.                *)

InitClassifier ==
    /\ show_config = InitShowConfig(None)
    /\ file_content \in TextsOver(ClassPieces, MaxTokens)
    /\ processed = NoTranscript
    /\ call = "none"
    /\ ret = NoReturn
    /\ NoObjects

ClassifySegment ==
    /\ call = "none"
    /\ file_content # NoText
    /\ call' = "_classify_segment"
    /\ ret' = Ok(Str(_classify_segment(file_content.v)))
    /\ UNCHANGED <<show_config, file_content, processed, llm, config, config_file, backend>>

NextClassifier == ClassifySegment

SpecClassifier == InitClassifier /\ [][NextClassifier]_vars

-----------------------------------------------------------------------------
(* The enhancer called on a transcript.                                    *)

InitEnhancer ==
    /\ show_config = InitShowConfig(None)
    /\ file_content \in TextsOver(EnhancePieces, MaxTokens) \cup {None}
    /\ processed = NoTranscript
    /\ \E active_provider \in Providers :
          /\ llm = [active_provider |-> active_provider]
          /\ backend \in LLMReplies(active_provider)
    /\ config = NoObject
    /\ config_file = Absent
    /\ call = "none"
    /\ ret = NoReturn

EnhanceTranscript ==
    /\ call = "none"
    /\ \E enhancement_type \in EnhancementTypes :
          ret' = enhance_transcript(llm.active_provider, file_content,
                                    enhancement_type, backend)
    /\ call' = "enhance_transcript"
    /\ UNCHANGED <<show_config, file_content, processed, llm, config, config_file, backend>>

NextEnhancer == EnhanceTranscript

SpecEnhancer == InitEnhancer /\ [][NextEnhancer]_vars

-----------------------------------------------------------------------------
(* The end-to-end workflow of the API client.                              *)

InitClient ==
    /\ show_config \in {None, ShowConfig(Str("Test Podcast"), Absent, Absent, Absent, Absent, Absent)}
    /\ file_content \in SourceInputs
    /\ processed = NoTranscript
    /\ llm = NoObject
    /\ config = NoObject
    /\ config_file = Absent
    /\ \E worker \in Workers : backend = [worker |-> worker, requests |-> <<>>]
    /\ call = "none"
    /\ ret = NoReturn

CreateCompletePodcastScript ==
    /\ call = "none"
    /\ \E source_type \in SourceTypes, enhancement_type \in EnhancementTypes, use_llm \in BOOLEAN :
          LET done == create_complete_podcast_script(backend.worker, file_content, source_type,
                                                     show_config, enhancement_type, use_llm)
          IN  /\ ret' = done.outcome
              /\ backend' = [backend EXCEPT !.requests = done.requests]
    /\ call' = "create_complete_podcast_script"
    /\ UNCHANGED <<show_config, file_content, processed, llm, config, config_file>>

NextClient == CreateCompletePodcastScript

SpecClient == InitClient /\ [][NextClient]_vars

-----------------------------------------------------------------------------
(* The keywords of a paragraph.                                            *)

InitKeywords ==
    /\ show_config = InitShowConfig(None)
    /\ file_content \in KeywordTexts
    /\ processed = NoTranscript
    /\ call = "none"
    /\ ret = NoReturn
    /\ NoObjects

ExtractKeywords ==
    /\ call = "none"
    /\ call' = "_extract_keywords"
    /\ \E order \in SetOrders :
           ret' = Ok(StrList(_extract_keywords(file_content.v, order)))
    /\ UNCHANGED <<show_config, file_content, processed, llm, config, config_file, backend>>

NextKeywords == ExtractKeywords \/ ExtractKeySegments

SpecKeywords == InitKeywords /\ [][NextKeywords]_vars

-----------------------------------------------------------------------------
(* The configuration manager: constructed from the environment and the     *)
(* file, its keys assigned, shown and saved.                               *)

InitConfig ==
    /\ show_config = InitShowConfig(None)
    /\ file_content = NoText
    /\ processed = NoTranscript
    /\ llm = NoObject
    /\ config_file \in ConfigFiles
    /\ \E env \in Environments : config = _load_config(env, config_file)
    /\ backend = NoObject
    /\ call = "none"
    /\ ret = NoReturn

\* config.llm.openai_api_key = None and the like: an assignment to a key.
SetApiKey ==
    /\ call \in {"none", "set"}
    /\ \E field \in ApiKeyFields, key \in {None, Str("sk-set-key")} :
          /\ config[field[1]][field[2]] # key
          /\ config' = [config EXCEPT ![field[1]][field[2]] = key]
    /\ call' = "set"
    /\ ret' = Ok(None)
    /\ UNCHANGED <<show_config, file_content, processed, llm, config_file, backend>>

ToDict ==
    /\ call \in {"none", "set"}
    /\ call' = "to_dict"
    /\ ret' = Ok(to_dict(config))
    /\ UNCHANGED <<show_config, file_content, processed, llm, config, config_file, backend>>

SaveToFile ==
    /\ call \in {"none", "set"}
    /\ call' = "save_to_file"
    /\ \E has_directory \in BOOLEAN :
          /\ ret' = MakeDirs(has_directory)
          /\ config_file' = IF has_directory THEN SavedConfig(config) ELSE config_file
    /\ UNCHANGED <<show_config, file_content, processed, llm, config, backend>>

NextConfig == SetApiKey \/ ToDict \/ SaveToFile

SpecConfig == InitConfig /\ [][NextConfig]_vars

-----------------------------------------------------------------------------
(* The fetcher called on a source.                                         *)

InitFetcher ==
    /\ show_config = None
    /\ file_content \in Urls
    /\ processed = NoTranscript
    /\ llm = NoObject
    /\ config = NoObject
    /\ config_file = Absent
    /\ \E services \in Services : backend = [services |-> services, asked |-> <<>>]
    /\ call = "none"
    /\ ret = NoReturn

FetchContent ==
    /\ call = "none"
    /\ \E source_type \in AskedTypes, options \in FetchOptions :
          /\ ret' = ContentFetcher_fetch_content(backend.services, file_content, source_type, options)
          /\ backend' = [backend EXCEPT !.asked = <<[source_type |-> source_type, options |-> options]>>]
    /\ call' = "fetch_content"
    /\ UNCHANGED <<show_config, file_content, processed, llm, config, config_file>>

NextFetcher == FetchContent

SpecFetcher == InitFetcher /\ [][NextFetcher]_vars

-----------------------------------------------------------------------------
(* Properties of script generation.                                        *)

Generated == call = "generate_complete_script"
Succeeded == Generated /\ ret.ok /\ ret.value.status = "success"

\* The caller's segment list, when the transcript holds one.
HasSegmentList == IsDict(processed) /\ IsList(Get(processed.v, "segments", List(<<>>)))
InputSegments == Get(processed.v, "segments", List(<<>>)).v

\* The id a segment dict carries: None when it has none.
IdOf(seg) == IF seg.v.id = Absent THEN None ELSE seg.v.id

AdjacentPairs(segs, transitions) ==
    /\ Len(transitions) = (IF Len(segs) >= 1 THEN Len(segs) - 1 ELSE 0)
    /\ \A i \in 1..Len(transitions) :
           transitions[i].between_segments = <<IdOf(segs[i]), IdOf(segs[i + 1])>>

\* C1: for every segment list of length N (N = 0 included) the transitions of
\* a generated script, and those _generate_transitions returns, number
\* max(N - 1, 0), and transition i names the ids of segments i and i + 1 in
\* that order.
C1_Transitions ==
    /\ Succeeded => AdjacentPairs(InputSegments, ret.value.sections.transitions)
    /\ (call = "_generate_transitions" /\ ret.ok)
           => AdjacentPairs(InputSegments, ret.value)

\* C1 witness: a script generated from three segments whose ids are 7, 1, 2.
C1_Witness ==
    /\ Succeeded
    /\ Len(InputSegments) = 3
    /\ Len(ret.value.sections.transitions) = 2
    /\ ret.value.sections.transitions[1].between_segments = <<Num(7), Num(1)>>
    /\ ret.value.sections.transitions[2].between_segments = <<Num(1), Num(2)>>

AllCarryDuration(segs) ==
    \A i \in 1..Len(segs) : IsNum(segs[i].v.estimated_duration)

DurationsOf(segs) == [i \in 1..Len(segs) |-> segs[i].v.estimated_duration.v]

\* 1.5 + sum + 2.0 + 0.1 * (N - 1) for N >= 1 and 1.5 + 2.0 for N = 0, in 1/1000.
ClosedFormTotal(segs) ==
    IF Len(segs) = 0 THEN 1500 + 2000
    ELSE 1500 + SumSeq(DurationsOf(segs)) + 2000 + 100 * (Len(segs) - 1)

WellFormedConfig ==
    /\ IsDict(show_config)
    /\ show_config.v.speakers = Absent \/ IsDict(show_config.v.speakers)

ZeroSegments == HasSegmentList /\ InputSegments = <<>>

\* C3: given zero segments (and a well-formed show configuration),
\* generate_complete_script returns status 'success' with an intro and an outro
\* present, an empty main_content, an empty transitions list and a total
\* estimated duration of exactly 3.5.
C3_ZeroSegments ==
    (Generated /\ ZeroSegments /\ WellFormedConfig) =>
        /\ ret.ok /\ ret.value.status = "success"
        /\ ret.value.sections.intro.script # <<>>
        /\ ret.value.sections.outro.script # <<>>
        /\ ret.value.sections.main_content = <<>>
        /\ ret.value.sections.transitions = <<>>
        /\ ret.value.estimated_duration = Num(3500)

\* C3 witness: a script generated from an empty segment list, its intro
\* rendered with the fallback preview phrase.
C3_Witness ==
    /\ Succeeded /\ ZeroSegments
    /\ processed = Transcript(List(<<>>))
    /\ \E i \in 1..Len(ret.value.sections.intro.script) :
           ret.value.sections.intro.script[i].slots = <<Str("fascinating insights")>>

\* C4: for every processed transcript and every show configuration,
\* generate_complete_script returns a result whose status is 'success' or
\* 'error', with a message when 'error'; no exception escapes the call.
C4_AlwaysReturns ==
    Generated =>
        /\ ret.ok
        /\ ret.value.status \in {"success", "error"}
        /\ ret.value.status = "error" => "message" \in DOMAIN ret.value

\* C4 witness: the error result of a generator whose configuration is not a
\* mapping, an exception raised during resolution.
C4_Witness ==
    /\ Generated /\ ret.ok /\ ret.value.status = "error"
    /\ ~IsDict(show_config)
    /\ ret.value.message = "AttributeError: no attribute 'get'"

\* The configured base format: single_host when none is configured.
BaseFormat ==
    LET speakers == IF show_config.v.speakers = Absent THEN EmptySpeakers
                    ELSE show_config.v.speakers
    IN  IF speakers.v.format = Absent THEN Str("single_host") ELSE speakers.v.format

QaCount ==
    Cardinality({i \in 1..Len(InputSegments) :
                    InputSegments[i].v.segment_type = Str("qa")})

ExpectedFormat ==
    IF BaseFormat = Str("single_host") /\ QaCount > 2 THEN Str("interview")
    ELSE BaseFormat

\* C6: the resolved format is 'interview' when the base format is single_host
\* (or absent) and strictly more than 2 segments are of type qa; in every other
\* case it is the configured base format.
C6_ResolvedFormat ==
    /\ (call = "_determine_speaker_format" /\ ret.ok) => ret.value.format = ExpectedFormat
    /\ Succeeded => ret.value.format = ExpectedFormat

\* C6 witness: single_host with exactly three qa segments resolves to interview.
C6_Witness ==
    /\ call = "_determine_speaker_format" /\ ret.ok
    /\ BaseFormat = Str("single_host")
    /\ QaCount = 3
    /\ ret.value.format = Str("interview")

\* C8: in every generated script main_content has one block per input
\* segment, in the same order, and block i carries the id of the i-th source
\* segment (of every segment that has an id).
C8_SegmentIds ==
    Succeeded =>
        /\ Len(ret.value.sections.main_content) = Len(InputSegments)
        /\ \A i \in 1..Len(InputSegments) :
               InputSegments[i].v.id # Absent =>
                   ret.value.sections.main_content[i].segment_id = InputSegments[i].v.id

\* C8 witness: a script generated from segments with ids 7, 1, 2, which are not
\* their positions.
C8_Witness ==
    /\ Succeeded
    /\ Len(InputSegments) = 3
    /\ [i \in 1..3 |-> ret.value.sections.main_content[i].segment_id]
           = <<Num(7), Num(1), Num(2)>>

-----------------------------------------------------------------------------
(* Properties of the transcript processor and of the whole pipeline.       *)

\* The block types of a generated script, in order.
BlockTypes(result) ==
    [i \in 1..Len(result.sections.main_content) |-> result.sections.main_content[i].type]

HasMarker(script, text) == \E i \in 1..Len(script) : script[i] = Marker(text)

\* C5: the three-paragraph scenario text, sent through process_from_file and
\* then generate_complete_script with the default single-host configuration,
\* gives a successful script of three blocks typed introduction, data and
\* narrative, in that order, with two transitions and a document that holds
\* the section markers.
C5_Scenario ==
    (Generated /\ file_content = ScenarioText) =>
        /\ ret.ok /\ ret.value.status = "success"
        /\ BlockTypes(ret.value) = <<Str("introduction"), Str("data"), Str("narrative")>>
        /\ Len(ret.value.sections.transitions) = 2
        /\ HasMarker(ret.value.script, "### INTRO ###")
        /\ HasMarker(ret.value.script, "### MAIN CONTENT ###")
        /\ HasMarker(ret.value.script, "### OUTRO ###")
        /\ HasMarker(ret.value.script, "### SHOW NOTES ###")

Extracted == call = "extract_key_segments" /\ ret.ok

\* The pieces of a text between its blank lines that hold more than whitespace.
NonEmptyParagraphs(text) ==
    {k \in DOMAIN SplitParagraphs(text) : Strip(SplitParagraphs(text)[k]) # <<>>}

\* The segments are numbered 1..N in the order of the N non-empty paragraphs
\* of the text, and each holds its paragraph, stripped.
NumberedInOrder(segs, text) ==
    LET kept == Ascending(NonEmptyParagraphs(text))
    IN  /\ Len(segs) = Len(kept)
        /\ \A i \in 1..Len(segs) :
               /\ segs[i].v.id = Num(i)
               /\ segs[i].v.text.v # <<>>
               /\ segs[i].v.text.v = Strip(SplitParagraphs(text)[kept[i]])

\* C7: the segments extract_key_segments returns carry the ids 1..N in
\* paragraph order, N being the number of non-empty paragraphs separated by
\* blank lines, and the text of each is that paragraph, stripped and non-empty.
C7_ConsecutiveIds ==
    /\ Extracted => NumberedInOrder(ret.value.v, file_content.v)
    /\ (call = "process_from_file" /\ processed.v.status = Str("success"))
           => NumberedInOrder(processed.v.segments.v,
                              clean_transcript(file_content).value.v)

\* C7 witness: two segments, numbered 1 and 2, extracted from a text whose
\* first piece before a blank line is empty.
C7_Witness ==
    /\ Extracted
    /\ Len(ret.value.v) = 2
    /\ 1 \notin NonEmptyParagraphs(file_content.v)
    /\ ret.value.v[1].v.id = Num(1)
    /\ ret.value.v[2].v.id = Num(2)

Cleaned == call = "clean_transcript" /\ ret.ok

\* C9: no part of what clean_transcript returns is a timestamp marker, a '['
\* followed by one or more digits or colons and a ']'.
C9_NoTimestampMarker ==
    Cleaned => \A i \in 1..Len(ret.value.v) : TimestampMarker(ret.value.v, i) = 0

\* C10: no part of what clean_transcript returns is one of the fillers um, uh,
\* er, ah, like, you know as a whole word, in any letter case.
C10_NoFillerWord ==
    Cleaned => \A i \in 1..Len(ret.value.v) : FillerWord(ret.value.v, i) = 0

Classified == call = "_classify_segment" /\ ret.ok

\* The classes in their priority order, each with its phrases.
ClassRules ==
    << [class |-> "introduction", phrases |-> {"introduction", "welcome", "hello", "today we"}],
       [class |-> "conclusion", phrases |-> {"conclusion", "summary", "in closing", "to wrap up"}],
       [class |-> "qa", phrases |-> {"question", "answer", "q:", "a:"}],
       [class |-> "data", phrases |-> {"data", "statistics", "research", "study"}],
       [class |-> "narrative", phrases |-> {"story", "example", "case", "experience"}] >>

\* The paragraph holds, in any letter case, a phrase of the k-th class.
Mentions(text, k) == \E p \in ClassRules[k].phrases : Contains(Lowered(text), p)

\* C11: the class of a paragraph is one of introduction, conclusion, qa,
\* data, narrative, content; it is the first class, in that priority order,
\* of which the paragraph holds a phrase, and content when it holds none.
C11_FirstRuleWins ==
    Classified =>
        /\ ret.value.v \in {"introduction", "conclusion", "qa", "data", "narrative", "content"}
        /\ \A k \in 1..Len(ClassRules) :
               ret.value.v = ClassRules[k].class
                   <=> (Mentions(file_content.v, k)
                        /\ \A j \in 1..(k - 1) : ~Mentions(file_content.v, j))
        /\ ret.value.v = "content"
               <=> \A k \in 1..Len(ClassRules) : ~Mentions(file_content.v, k)

\* C11 witness: a paragraph that holds a qa, a data and a narrative phrase and
\* no phrase of a class before them is classified qa.
C11_Witness ==
    /\ Classified
    /\ Mentions(file_content.v, 3) /\ Mentions(file_content.v, 4) /\ Mentions(file_content.v, 5)
    /\ ~Mentions(file_content.v, 1) /\ ~Mentions(file_content.v, 2)
    /\ ret.value.v = "qa"

\* A script line carries a value when it is spoken under it as the speaker
\* label or interpolates it.
LineNames(line, v) ==
    line.speaker = v \/ \E k \in 1..Len(line.slots) : line.slots[k] = v

ScriptNames(lines, v) == \E i \in 1..Len(lines) : LineNames(lines[i], v)

\* The script part that follows a section marker of the assembled script.
IsSectionAt(script, i, marker) ==
    /\ i > 1
    /\ script[i - 1].part = "marker"
    /\ script[i - 1].v = marker
    /\ script[i].part = "script"

\* The assembled script carries a value in its title line, or in the intro
\* or the outro it embeds.
AssembledNames(result, v) ==
    \E i \in 1..Len(result.script) :
        \/ result.script[i].part = "title" /\ result.script[i].v = v
        \/ /\ IsSectionAt(result.script, i, "### INTRO ###")
           /\ ScriptNames(result.script[i].v, v)
        \/ /\ IsSectionAt(result.script, i, "### OUTRO ###")
           /\ ScriptNames(result.script[i].v, v)

HasIntroMusicCue(lines) ==
    \E i \in 1..Len(lines) :
        /\ lines[i].kind = "cue"
        /\ lines[i].text = "[INTRO MUSIC - {intro_music_duration} seconds]"

\* C12: when the show configuration sets show_name and a top-level host_name,
\* the intro script and the assembled script both contain the show_name and
\* the host_name, and the intro contains an '[INTRO MUSIC' cue.
C12_NamesShowAndHost ==
    (/\ Succeeded
     /\ IsDict(show_config)
     /\ show_config.v.show_name # Absent
     /\ show_config.v.host_name # Absent)
    => LET result == ret.value
           intro == result.sections.intro.script
       IN  /\ ScriptNames(intro, show_config.v.show_name)
           /\ ScriptNames(intro, show_config.v.host_name)
           /\ AssembledNames(result, show_config.v.show_name)
           /\ AssembledNames(result, show_config.v.host_name)
           /\ HasIntroMusicCue(intro)

\* The speakers mapping the resolver reads: show_config.get('speakers', {}).
ConfiguredSpeakers == ConfigGet(show_config, "speakers", EmptySpeakers)

RoleNameKeys == {"host_name", "guest_name", "co_host_name"}

Placeholder(role) ==
    IF role = "host_name" THEN Str("HOST")
    ELSE IF role = "guest_name" THEN Str("GUEST") ELSE Str("CO-HOST")

\* A name is set when the speakers mapping has it and it is not null.
NameIsSet(role) == ConfiguredSpeakers.v[role] \notin {Absent, None}

\* C13: each resolved role name is the configured value when the name is
\* set, and the placeholder HOST / GUEST / CO-HOST when it is unset, whether
\* absent or null; an unset name never resolves to null.
C13_RoleNames ==
    (call = "_determine_speaker_format" /\ ret.ok)
    => \A role \in RoleNameKeys :
          /\ ret.value[role] = (IF NameIsSet(role) THEN ConfiguredSpeakers.v[role]
                                ELSE Placeholder(role))
          /\ ret.value[role] # None

Enhanced == call = "enhance_transcript"

\* The backend fails: its call raises, or what it hands back cannot be
\* taken as text.
BackendFailed == ~CallProvider(llm.active_provider, backend).ok

\* C14: when the text-generation backend fails during enhance_transcript the
\* call does not raise: it returns status 'error', a message, and
\* enhanced_transcript equal to the unmodified input text.
C14_FallbackToInput ==
    (Enhanced /\ BackendFailed)
    => /\ ret.ok
       /\ ret.value.status = "error"
       /\ ret.value.message = CallProvider(llm.active_provider, backend).message
       /\ ret.value.enhanced_transcript = file_content

\* C14 witness: the backend raises on a transcript with words in it, and
\* the transcript comes back unmodified under status 'error'.
C14_Witness ==
    /\ Enhanced
    /\ backend \in LLMFailures
    /\ file_content.t = "text" /\ Len(file_content.v) > 4
    /\ ret.ok /\ ret.value.status = "error"
    /\ ret.value.enhanced_transcript = file_content

WorkflowDone == call = "create_complete_podcast_script"

\* The request posted to an endpoint, when there is one and only one.
RequestsTo(endpoint) ==
    {i \in 1..Len(backend.requests) : backend.requests[i].endpoint = endpoint}

EnhanceRequest == backend.requests[CHOOSE i \in RequestsTo("/api/enhance-content") : TRUE]

\* The enhancement step was entered and failed: enhance_content raised, its
\* data could not be searched, or re-processing the enhanced content raised.
EnhancementStepFailed ==
    /\ WorkflowDone
    /\ RequestsTo("/api/enhance-content") # {}
    /\ \/ ~enhance_content(backend.worker, EnhanceRequest.payload.content).ok
       \/ backend.worker.enhance = "ok_null_data"
       \/ backend.worker.enhance = "ok" /\ backend.worker.reprocess # "ok"

\* Script generation succeeds: generate_script returns script data whose
\* total duration can be read.
ScriptGenerationSucceeds == backend.worker.generate \in {"ok", "ok_no_metadata"}

LastRequest == backend.requests[Len(backend.requests)]

\* str(e) of the exception the enhancement step failed with.
EnhancementFailure ==
    LET content == EnhanceRequest.payload.content
        enhanced == enhance_content(backend.worker, content)
    IN  IF ~enhanced.ok THEN enhanced.message
        ELSE IF ~HasKey(enhanced.value, "enhanced_content").ok
             THEN HasKey(enhanced.value, "enhanced_content").message
             ELSE process_transcript(backend.worker.reprocess,
                                     enhanced.value.v.enhanced_content).message

\* C15: a failure of the optional enhancement step is never raised to the
\* caller: the workflow goes on to script generation with the transcript
\* processed before the enhancement, and when script generation succeeds the
\* result is returned with success = True and the failure in its errors list.
C15_EnhancementFailureAbsorbed ==
    EnhancementStepFailed
    => /\ LastRequest.endpoint = "/api/generate-script"
       /\ LastRequest.payload.processed_transcript
             = ProcessedData(EnhanceRequest.payload.content)
       /\ ret.ok <=> ScriptGenerationSucceeds
       /\ ret.ok => /\ ret.value.success
                    /\ ret.value.errors = <<"Enhancement failed: " \o EnhancementFailure>>
                    /\ ret.value.processed_transcript
                          = ProcessedData(EnhanceRequest.payload.content)
                    /\ "generate_script" = ret.value.steps_completed[Len(ret.value.steps_completed)]
       /\ ~ret.ok => ret.message \in
                        { "HTTPError: 500 Server Error for url: /api/generate-script",
                          "rejected by /api/generate-script",
                          "AttributeError: no attribute 'get'" }

\* C15 witness: the enhancement request fails with an HTTP error, and the
\* result comes back with success = True, one entry in errors and the script
\* of the transcript processed before the enhancement.
C15_Witness ==
    /\ EnhancementStepFailed
    /\ backend.worker.enhance = "http_error"
    /\ ret.ok /\ ret.value.success
    /\ ret.value.errors =
          <<"Enhancement failed: HTTPError: 500 Server Error for url: /api/enhance-content">>
    /\ ret.value.script.v.script_of = ProcessedData(file_content)

\* A text that is empty or holds whitespace only.
WhitespaceOnly(text) == text.t = "text" /\ \A i \in 1..Len(text.v) : text.v[i] \in Whitespace

\* C16: empty or whitespace-only text yields no segment from
\* extract_key_segments, and process_from_file on it returns status
\* 'success' with zero segments and estimated_duration 0, without raising.
C16_EmptyInput ==
    /\ (call = "extract_key_segments" /\ WhitespaceOnly(file_content))
           => ret = Ok(List(<<>>))
    /\ (call = "process_from_file" /\ WhitespaceOnly(file_content))
           => /\ ret.ok
              /\ ret.value.v.status = Str("success")
              /\ ret.value.v.segments = List(<<>>)
              /\ ret.value.v.total_segments = Num(0)
              /\ ret.value.v.estimated_duration = Num(0)

\* C16 witness: process_from_file has returned for a text of a blank line
\* and more whitespace, with no segment.
C16_Witness ==
    /\ call = "process_from_file"
    /\ WhitespaceOnly(file_content)
    /\ Len(file_content.v) >= 3
    /\ ret.ok
    /\ ret.value.v.status = Str("success")
    /\ ret.value.v.segments = List(<<>>)

\* word is a run of at least four lower-case letters that stands as a whole
\* word in the paragraph, once the paragraph is lowered.
IsWordOf(word, paragraph) ==
    LET low == Lowered(paragraph)
    IN  \E i \in 1..Len(low) : \E j \in (i + 3)..Len(low) :
            /\ ~IsWordAt(low, i - 1)
            /\ ~IsWordAt(low, j + 1)
            /\ \A k \in i..j : low[k] \in Lower
            /\ StringOf(SubSeq(low, i, j)) = word

KeywordsWellFormed(keywords, paragraph) ==
    /\ Len(keywords) <= 10
    /\ \A a, b \in 1..Len(keywords) : keywords[a] = keywords[b] => a = b
    /\ \A k \in 1..Len(keywords) :
           /\ IsWordOf(keywords[k].v, paragraph)
           /\ keywords[k].v \notin common_words

\* C17: every segment's topic_keywords has at most 10 entries and no
\* duplicates, and every entry is a lower-case alphabetic word of at least 4
\* characters that occurs in the paragraph and is not a common word.
C17_Keywords ==
    /\ call = "_extract_keywords" => KeywordsWellFormed(ret.value.v, file_content.v)
    /\ Extracted => \A i \in 1..Len(ret.value.v) :
                        KeywordsWellFormed(ret.value.v[i].v.topic_keywords.v,
                                           ret.value.v[i].v.text.v)

\* C17 witness: a paragraph with more than ten different keywords, a common
\* word and a repeated word has given ten keywords.
C17_Witness ==
    /\ call = "_extract_keywords"
    /\ Len(KeywordCandidates(file_content.v)) > 12
    /\ \E k \in 1..Len(KeywordCandidates(file_content.v)) :
           KeywordCandidates(file_content.v)[k] \in common_words
    /\ Len(ret.value.v) = 10

\* The API keys the configuration holds: the values of its key fields that
\* are set.
RealApiKeys ==
    {config[field[1]][field[2]] : field \in ApiKeyFields} \ {None, Str("")}

ValuesOf(mapping) ==
    UNION {{mapping[part][field] : field \in DOMAIN mapping[part]} : part \in DOMAIN mapping}

\* C18: what to_dict returns never holds a real API key: each API-key field
\* is '***' when the key is set and null otherwise; and the mapping that
\* save_to_file writes has no API-key field at all.
C18_NoApiKeyShown ==
    /\ call = "to_dict"
          => /\ \A field \in ApiKeyFields :
                    ret.value[field[1]][field[2]]
                       = IF config[field[1]][field[2]] \in RealApiKeys
                         THEN Str("***") ELSE None
             /\ ValuesOf(ret.value) \cap RealApiKeys = {}
    /\ (call = "save_to_file" /\ ret.ok)
          => /\ \A field \in ApiKeyFields : field[2] \notin DOMAIN config_file[field[1]]
             /\ ValuesOf(config_file) \cap RealApiKeys = {}

\* C18 witness: to_dict of a configuration with a key from the environment,
\* a key from the file and a key that is not set.
C18_Witness ==
    /\ call = "to_dict"
    /\ config.cloudflare.api_key = Str("cf-file-key")
    /\ config.llm.openai_api_key = None
    /\ config.llm.anthropic_api_key = Str("sk-live-1")
    /\ ret.value.cloudflare.api_key = Str("***")
    /\ ret.value.llm.openai_api_key = None
    /\ ret.value.llm.anthropic_api_key = Str("***")

\* A show configuration that is not a mapping, or whose 'speakers' entry is
\* not a mapping.
MalformedConfig ==
    \/ ~IsDict(show_config)
    \/ ~IsDict(ConfigGet(show_config, "speakers", EmptySpeakers))

\* C19: given a malformed show configuration, script generation fails fast
\* and the failure reaches the caller as a raised exception, not as a
\* returned result.
C19_MalformedConfigRaises == (Generated /\ MalformedConfig) => ~ret.ok

\* The positions of a marker line in an assembled script, in increasing order.
MarkerPositions(script, text) ==
    Ascending({i \in 1..Len(script) : script[i].part = "marker" /\ script[i].v = text})

\* The positions of the segment header lines.
HeaderPositions(script) ==
    Ascending({i \in 1..Len(script) : script[i].part = "segment_header"})

\* The id block k of the main content is headed with: the id of the k-th
\* segment of the transcript, or k when that segment has none.
HeaderId(k) ==
    IF InputSegments[k].v.id # Absent THEN InputSegments[k].v.id ELSE Num(k)

SectionsInOrder(script) ==
    LET intro == MarkerPositions(script, "### INTRO ###")
        main == MarkerPositions(script, "### MAIN CONTENT ###")
        outro == MarkerPositions(script, "### OUTRO ###")
        notes == MarkerPositions(script, "### SHOW NOTES ###")
    IN  /\ Len(intro) = 1 /\ Len(main) = 1 /\ Len(outro) = 1 /\ Len(notes) = 1
        /\ script[1].part = "banner" /\ script[2].part = "title"
        /\ 2 < intro[1] /\ intro[1] < main[1] /\ main[1] < outro[1] /\ outro[1] < notes[1]

BlocksAndTransitions(script, transitions) ==
    LET main == MarkerPositions(script, "### MAIN CONTENT ###")[1]
        outro == MarkerPositions(script, "### OUTRO ###")[1]
        headers == HeaderPositions(script)
        between == MarkerPositions(script, "--- TRANSITION ---")
        N == Len(InputSegments)
    IN  /\ Len(headers) = N
        /\ \A k \in 1..N :
              /\ main < headers[k] /\ headers[k] < outro
              /\ script[headers[k]].v[1] = HeaderId(k)
        /\ Len(between) = (IF N >= 1 THEN N - 1 ELSE 0)
        /\ \A k \in 1..Len(between) :
              /\ headers[k] < between[k] /\ between[k] < headers[k + 1]
              /\ script[between[k] + 1] = Part("script", <<transitions[k].script>>)

\* C20: the assembled script has the header banner, '### INTRO ###',
\* '### MAIN CONTENT ###', '### OUTRO ###' and '### SHOW NOTES ###' in that
\* order; inside the main content the blocks stand in segment order, block i
\* (i < N) is followed by transition i before block i + 1, and no transition
\* follows the last block.
C20_AssemblyOrder ==
    Succeeded =>
        /\ SectionsInOrder(ret.value.script)
        /\ BlocksAndTransitions(ret.value.script, ret.value.sections.transitions)

\* C20 witness: a script assembled from three segments with ids 7, 1, 2 has
\* three headers and two transitions between them.
C20_Witness ==
    /\ Succeeded
    /\ Len(InputSegments) = 3
    /\ [k \in 1..3 |-> ret.value.script[HeaderPositions(ret.value.script)[k]].v[1]]
          = <<Num(7), Num(1), Num(2)>>
    /\ Len(MarkerPositions(ret.value.script, "--- TRANSITION ---")) = 2

\* The duration the show notes charge segment k with, in 1/1000 minute.
ChargedDuration(k) ==
    Get(InputSegments[k].v, "estimated_duration", Num(DefaultDuration)).v

\* 1.5 minutes plus the durations of the segments before segment k.
ExactClock(k) == ClockStart + SumSeq([j \in 1..(k - 1) |-> ChargedDuration(j)])

\* MM:SS of t / 1000 minutes, the seconds the fraction of a minute times 60,
\* truncated.
ExactClockString(t) == Pad2(t \div 1000) \o ":" \o Pad2(((t % 1000) * 60) \div 1000)

\* C21: the show notes hold one timestamp entry for each segment, in segment
\* order; the clock of entry i is 1.5 minutes plus the durations of the
\* segments before it (so the first is 01:30), shown as MM:SS with the
\* fraction of a minute times 60, truncated, as seconds.
C21_Timestamps ==
    Succeeded =>
        LET timestamps == ret.value.sections.show_notes.timestamps
        IN  /\ Len(timestamps) = Len(InputSegments)
            /\ \A k \in 1..Len(timestamps) :
                  timestamps[k].time = ExactClockString(ExactClock(k))

\* The type a segment counts as between two segments: 'content' when it
\* carries none.
TypeOf(seg) ==
    IF seg.v.segment_type = Absent THEN Str("content") ELSE seg.v.segment_type

LineFor(current_type, next_type) ==
    IF current_type = Str("data") /\ next_type = Str("narrative")
    THEN Spoken(Str("HOST"), "Now, let me show you what this looks like in practice.", <<>>)
    ELSE IF current_type = Str("narrative") /\ next_type = Str("data")
    THEN Spoken(Str("HOST"), "The numbers behind this story are equally compelling.", <<>>)
    ELSE IF current_type = Str("introduction") /\ next_type = Str("content")
    THEN Cue("[TRANSITION MUSIC - 3 seconds]", <<>>)
    ELSE Spoken(Str("HOST"), "But there's more to this story.", <<>>)

AudioCueFor(current_type, next_type) ==
    IF current_type = Str("data") THEN "soft_chime"
    ELSE IF next_type = Str("narrative") THEN "gentle_whoosh"
    ELSE "subtle_transition"

ChosenByTypes(segs, transitions) ==
    \A i \in 1..Len(transitions) :
        /\ transitions[i].script = LineFor(TypeOf(segs[i]), TypeOf(segs[i + 1]))
        /\ transitions[i].audio_cue = AudioCueFor(TypeOf(segs[i]), TypeOf(segs[i + 1]))

\* C22: the line of the transition between two adjacent segments is fixed by
\* the pair (current type, next type): the 'in practice' line for data then
\* narrative, the 'numbers behind this story' line for narrative then data,
\* the 3-second transition music cue for introduction then content, and the
\* generic bridging line for every other pair; its audio cue is 'soft_chime'
\* when the current type is data, otherwise 'gentle_whoosh' when the next type
\* is narrative, otherwise 'subtle_transition'.
C22_TransitionChoice ==
    /\ Succeeded => ChosenByTypes(InputSegments, ret.value.sections.transitions)
    /\ (call = "_generate_transitions" /\ ret.ok) => ChosenByTypes(InputSegments, ret.value)

\* C22 witness: a script generated from a data, a narrative and a data
\* segment: the 'in practice' line with a soft chime, then the 'numbers' line
\* with the subtle transition.
C22_Witness ==
    /\ Succeeded
    /\ Len(InputSegments) = 3
    /\ [i \in 1..3 |-> InputSegments[i].v.segment_type]
          = <<Str("data"), Str("narrative"), Str("data")>>
    /\ ret.value.sections.transitions[1].script
          = Spoken(Str("HOST"), "Now, let me show you what this looks like in practice.", <<>>)
    /\ ret.value.sections.transitions[1].audio_cue = "soft_chime"
    /\ ret.value.sections.transitions[2].script
          = Spoken(Str("HOST"), "The numbers behind this story are equally compelling.", <<>>)
    /\ ret.value.sections.transitions[2].audio_cue = "subtle_transition"

\* The key takeaway an outro script states: what its 'The key takeaway?' line
\* is filled with.
TakeawayLines(script) ==
    {i \in 1..Len(script) :
        script[i].text \in {"The key takeaway? {takeaway}",
                            "Absolutely! The key takeaway? {takeaway}"}}

TakeawayOf(script) == script[CHOOSE i \in TakeawayLines(script) : TRUE].slots[1]

\* Whether a data segment and whether a narrative segment is among segs.
Presence(segs) ==
    << \E i \in 1..Len(segs) : segs[i].v.segment_type = Str("data"),
       \E i \in 1..Len(segs) : segs[i].v.segment_type = Str("narrative") >>

\* One segment list for each combination: neither, data, narrative, both.
OfType(ty) == SegmentDict(Num(1), Text(<<"x">>), Num(DefaultDuration), List(<<>>), Str(ty))

EachCombination ==
    { <<OfType("qa")>>, <<OfType("data")>>, <<OfType("narrative")>>,
      <<OfType("data"), OfType("narrative")>> }

\* C23 as stated: for a non-empty segment list the key takeaway of the outro
\* is one of four sentences, one for each combination of (a data segment is
\* present, a narrative segment is present), the four sentences distinct: a
\* list of another combination has another takeaway.
C23_FourTemplates ==
    (Succeeded /\ InputSegments # <<>>) =>
        \A other \in EachCombination :
            Presence(other) # Presence(InputSegments)
                => Str(_generate_key_takeaway(other))
                       # TakeawayOf(ret.value.sections.outro.script)

\* C23 as it holds: for a non-empty segment list the key takeaway is one of
\* three sentences: one when a data and a narrative segment are present, one
\* when a data segment is present without a narrative one, and one in every
\* other case, narrative segments alone and neither alike.
C23_ThreeTemplates ==
    (Succeeded /\ InputSegments # <<>>) =>
        /\ Cardinality(TakeawayLines(ret.value.sections.outro.script)) = 1
        /\ TakeawayOf(ret.value.sections.outro.script) =
              (IF Presence(InputSegments) = <<TRUE, TRUE>>
               THEN Str("The data tells a clear story, and the real-world examples show us exactly how this impacts our daily lives.")
               ELSE IF Presence(InputSegments) = <<TRUE, FALSE>>
               THEN Str("The numbers don't lie - we're witnessing a significant shift that deserves our attention.")
               ELSE Str("These insights give us a glimpse into what the future might hold."))

\* C23 witness: the outro of a script generated from narrative segments
\* without a data segment states the sentence of the lists with neither.
C23_Witness ==
    /\ Succeeded
    /\ Presence(InputSegments) = <<FALSE, TRUE>>
    /\ TakeawayOf(ret.value.sections.outro.script)
          = Str("These insights give us a glimpse into what the future might hold.")
    /\ Str(_generate_key_takeaway(<<OfType("qa")>>))
          = TakeawayOf(ret.value.sections.outro.script)

\* The join rule of the intro preview: 'A, B, and C' for three or more items,
\* 'A and B' for two, the bare item for one.
PreviewJoin(items) ==
    IF Len(items) >= 3
    THEN JoinStr(SubSeq(items, 1, Len(items) - 1), ", ") \o ", and " \o items[Len(items)]
    ELSE IF Len(items) = 2 THEN items[1] \o " and " \o items[2]
    ELSE items[1]

\* The first keyword of each of the first 5 segments that has one.
FirstKeywords ==
    {KeywordsHead(InputSegments[i], 1)[1] :
        i \in {j \in 1..Min(5, Len(InputSegments)) : KeywordsHead(InputSegments[j], 1) # <<>>}}

\* C24: the episode summary of the show notes lists up to 4 unique topics, each
\* the first keyword of one of the first 5 segments, joined as the intro
\* preview joins its items: 'A, B, and C' for three or more, 'A and B' for
\* two, the bare item for one; with no topic it is a fixed sentence.
C24_SummaryJoin ==
    Succeeded =>
        LET summary == ret.value.sections.show_notes.episode_summary
        IN  IF FirstKeywords = {}
            THEN summary.slots = <<>>
            ELSE /\ summary.slots[1].set = FirstKeywords
                 /\ summary.slots[1].limit = 4
                 /\ \A unique_topics \in Orders(summary.slots[1]) :
                       SummaryTopics(unique_topics) = PreviewJoin(unique_topics)

\* No marker of the natural-speech pass is in line i of a polished block.
Unmodified(script, i) == script.markers[i] = [emphasis |-> 0, pauses |-> 0]

\* C25: the natural-speech pass over a polished block leaves every line that
\* begins with a speaker label, whatever the configured speaker name, and
\* every bracketed production cue as it is: no emphasis marker and no pause
\* marker is put into it.
C25_LabelledLinesUnmodified ==
    Succeeded =>
        \A b \in 1..Len(ret.value.sections.main_content) :
            LET script == ret.value.sections.main_content[b].script
            IN  \A i \in 1..Len(script.lines) :
                    script.lines[i].kind \in {"spoken", "cue"} => Unmodified(script, i)

\* The labels of the spoken lines of a script.
Labels(lines) == {lines[i].speaker : i \in {j \in 1..Len(lines) : lines[j].kind = "spoken"}}

\* The labels of every spoken line of a generated script: intro, content
\* blocks, transitions and outro.
AllLabels(sections) ==
    Labels(sections.intro.script)
    \cup UNION {Labels(sections.main_content[b].script.lines) :
                   b \in 1..Len(sections.main_content)}
    \cup Labels([k \in 1..Len(sections.transitions) |-> sections.transitions[k].script])
    \cup Labels(sections.outro.script)

\* C26: every spoken line of a generated script (intro, content blocks,
\* transitions, outro) is labelled with one of the role names of the resolved
\* speaker configuration: the host, the guest or the co-host name, never
\* another label and never a null one.
C26_ConsistentLabels ==
    Succeeded =>
        \A label \in AllLabels(ret.value.sections) :
            /\ label \in {ret.value.sections.speaker_config[role] : role \in RoleNameKeys}
            /\ label # None

\* The MM:SS readings of the lengths within a second (17/1000 minute, rounded
\* up) of t / 1000 minutes.
ClockReadings(t) == {ExactClockString(u) : u \in Max(t - 17, 0)..(t + 17)}

\* C27: the episode duration of the metadata (MM:SS) and the total estimated
\* duration of the script (minutes) denote the same length, for every segment
\* list: the metadata reads a length within a second of the total.
C27_SameLength ==
    Succeeded =>
        ret.value.sections.metadata.duration
            \in ClockReadings(ret.value.estimated_duration.v)

Processed == call = "process_from_file" /\ processed.v.status = Str("success")

CharsIn(text) == {text[i] : i \in 1..Len(text)}

\* C28: whatever the raw text, process_from_file returns at most one segment,
\* whose text holds no line break (cleaning has made a single space of every
\* run of whitespace, blank lines included, before the text is segmented);
\* total_segments is the length of the segment list and estimated_duration
\* the sum of the durations of its segments.
C28_AtMostOneSegment ==
    Processed =>
        LET segments == processed.v.segments.v
        IN  /\ Len(segments) <= 1
            /\ \A i \in 1..Len(segments) : "\n" \notin CharsIn(segments[i].v.text.v)
            /\ processed.v.total_segments = Num(Len(segments))
            /\ processed.v.estimated_duration
                  = Num(SumSeq([i \in 1..Len(segments) |->
                                   segments[i].v.estimated_duration.v]))

\* C28 witness: the three paragraphs of the scenario transcript, separated by
\* blank lines, come back as one segment of 18 words and 0.12 minutes.
C28_Witness ==
    /\ Processed
    /\ file_content = ScenarioText
    /\ Len(processed.v.segments.v) = 1
    /\ processed.v.total_segments = Num(1)
    /\ processed.v.segments.v[1].v.word_count = Num(18)
    /\ processed.v.estimated_duration = Num(120)

StepOrder == <<"fetch_content", "process_transcript", "enhance_content", "generate_script">>

StepIndex(step) == CHOOSE k \in DOMAIN StepOrder : StepOrder[k] = step

StepsOf(steps) == {steps[i] : i \in 1..Len(steps)}

\* C29: the steps_completed of a returned workflow result are in the order
\* fetch_content, process_transcript, enhance_content, generate_script, and
\* 'enhance_content' is among them only when the whole enhancement step has
\* succeeded: no returned result has both 'enhance_content' in
\* steps_completed and an 'Enhancement failed' entry in errors, also when the
\* enhancement succeeds and re-processing the enhanced text fails.
C29_StepsAndErrors ==
    (WorkflowDone /\ ret.ok) =>
        /\ StepsOf(ret.value.steps_completed) \subseteq StepsOf(StepOrder)
        /\ \A i, j \in 1..Len(ret.value.steps_completed) :
               i < j => StepIndex(ret.value.steps_completed[i])
                            < StepIndex(ret.value.steps_completed[j])
        /\ ~("enhance_content" \in StepsOf(ret.value.steps_completed)
             /\ ret.value.errors # <<>>)

\* C30: ContentFetcher.fetch_content never raises.  For an unsupported
\* source type, and when the selected handler raises, it returns a dict with
\* status 'failed', the error message, the source url, the source type and
\* fetched_at; when the handler returns, it returns the handler's dict with
\* fetched_at added.
FailedWith(result, message, source_type) ==
    /\ result.v.status = Str("failed")
    /\ result.v.error = Str(message)
    /\ result.v.source_url = file_content
    /\ result.v.source_type = source_type

Added(result, handled) ==
    /\ DOMAIN result.v = DOMAIN handled.v \cup {"fetched_at"}
    /\ \A key \in DOMAIN handled.v : result.v[key] = handled.v[key]

HandledBy(source_type, options) ==
    Handler(backend.services, source_type.v, file_content, OrEmpty(options))

C30_FetchNeverRaises ==
    call = "fetch_content" =>
        LET source_type == backend.asked[1].source_type
            options == backend.asked[1].options
        IN  /\ ret.ok
            /\ IsDict(ret.value)
            /\ ret.value.v.fetched_at = Str(backend.services.now)
            /\ IF IsList(source_type)
               THEN FailedWith(ret.value, "unhashable type: 'list'", source_type)
               ELSE IF ~Supported(source_type)
               THEN FailedWith(ret.value, "Unsupported source type: " \o TypeString(source_type),
                               source_type)
               ELSE IF HandledBy(source_type, options).ok
               THEN Added(ret.value, HandledBy(source_type, options).value)
               ELSE FailedWith(ret.value, HandledBy(source_type, options).message, source_type)

C30_Witness ==
    /\ call = "fetch_content"
    /\ Supported(backend.asked[1].source_type)
    /\ ~HandledBy(backend.asked[1].source_type, backend.asked[1].options).ok
    /\ ret.ok
    /\ ret.value.v.status = Str("failed")

=============================================================================
